---- MODULE Spec2Model ----
(***************************************************************************)
(* Model of smt/utils/kriging_utils.py: the distance engine                *)
(* (cross_distances, differences, gower_componentwise_distances,           *)
(* cross_levels), the theta layout (compute_n_param) and the               *)
(* mixed-variable correlation composer (matrix_data_corr).                 *)
(*                                                                         *)
(* Arrays are records [shape |-> <<rows, cols>>, a |-> <<row, ...>>];      *)
(* Python indices are 0-based and are kept 0-based wherever they are       *)
(* data (the pair list ij, the level pairs Lij); a sequence is read at     *)
(* index + 1.  An optional argument is <<>> for None and <<v>> for v.      *)
(***************************************************************************)
EXTENDS Integers, Sequences, FiniteSets, TLC

VARIABLES pc, X, y, xtypes, par, loc, ret, first, pre

vars == <<pc, X, y, xtypes, par, loc, ret, first, pre>>

(***************************************************************************)
(* Bounds of the model.                                                    *)
(***************************************************************************)
MaxRows == 3
MaxCross == 2
MaxGowerX == 1
MaxGowerY == 2

ColCounts == 1..2
Vals == {0, 1}

None == <<>>
Some(v) == <<v>>
NoLoc == [none |-> TRUE]

(***************************************************************************)
(* Floating-point numbers of the distance engine are modelled exactly, as  *)
(* rationals <<num, den>> in lowest terms with den > 0.  A denominator 0   *)
(* stands for what IEEE division by zero produces: <<0, 0>> is nan,        *)
(* <<1, 0>> is inf and <<-1, 0>> is -inf.                                  *)
(***************************************************************************)
RECURSIVE GCD(_, _)
GCD(a, b) == IF b = 0 THEN a ELSE GCD(b, a % b)

IAbs(n) == IF n < 0 THEN -n ELSE n
ISign(n) == IF n < 0 THEN -1 ELSE IF n > 0 THEN 1 ELSE 0

Q(n) == <<n, 1>>
QNan == <<0, 0>>
QFinite(a) == a[2] # 0

QNorm(n, d) ==
  IF d = 0 THEN <<ISign(n), 0>>
  ELSE LET g == GCD(IAbs(n), IAbs(d))
           s == IF d < 0 THEN -1 ELSE 1
       IN <<(s * n) \div g, (s * d) \div g>>

QSub(a, b) ==
  IF a = QNan \/ b = QNan THEN QNan
  ELSE IF QFinite(a) /\ QFinite(b) THEN QNorm(a[1] * b[2] - b[1] * a[2], a[2] * b[2])
  ELSE IF QFinite(b) THEN a
  ELSE IF QFinite(a) THEN <<-b[1], 0>>
  ELSE QNan

QDiv(a, b) ==
  IF a = QNan \/ b = QNan THEN QNan
  ELSE IF QFinite(a) /\ QFinite(b) THEN QNorm(a[1] * b[2], a[2] * b[1])
  ELSE IF QFinite(b) THEN <<a[1] * ISign(b[1]), 0>>
  ELSE IF QFinite(a) THEN Q(0)
  ELSE QNan

QAbs(a) == <<IAbs(a[1]), a[2]>>

\* a < b; every comparison with nan is false
QLess(a, b) ==
  IF QFinite(a) /\ QFinite(b) THEN a[1] * b[2] < b[1] * a[2]
  ELSE IF a = QNan \/ b = QNan THEN FALSE
  ELSE IF QFinite(a) THEN b[1] > 0
  ELSE IF QFinite(b) THEN a[1] < 0
  ELSE a[1] < b[1]

(***************************************************************************)
(* numpy arrays.                                                           *)
(***************************************************************************)
Mats(rows, cols, vals) ==
  UNION {UNION {{[shape |-> <<n, d>>, a |-> m] : m \in [1..n -> [1..d -> {Q(v) : v \in vals}]]}
                 : d \in cols} : n \in rows}

NRows(M) == M.shape[1]
NCols(M) == M.shape[2]

\* np.zeros((n, d))
Zeros(n, d) == [shape |-> <<n, d>>, a |-> [i \in 1..n |-> [j \in 1..d |-> Q(0)]]]

\* np.zeros((n, 2), dtype=np.int32)
IntZeros(n, d) == [shape |-> <<n, d>>, a |-> [i \in 1..n |-> [j \in 1..d |-> 0]]]

\* np.arange(lo, hi)
Arange(lo, hi) == [t \in 1..(IF hi > lo THEN hi - lo ELSE 0) |-> lo + t - 1]

\* a - b on two rows, with numpy's broadcasting of a length-1 operand;
\* <<"ValueError">> when the shapes cannot be broadcast together.
RowSub(a, b) ==
  IF Len(a) = Len(b) THEN [c \in 1..Len(a) |-> QSub(a[c], b[c])]
  ELSE IF Len(a) = 1 THEN [c \in 1..Len(b) |-> QSub(a[1], b[c])]
  ELSE IF Len(b) = 1 THEN [c \in 1..Len(a) |-> QSub(a[c], b[1])]
  ELSE <<"ValueError">>

\* A[lo:hi, col] = vals  (lo, hi 0-based, hi exclusive)
SetColSlice(A, lo, hi, col, vals) ==
  [A EXCEPT !.a = [i \in 1..NRows(A) |->
      IF i - 1 >= lo /\ i - 1 < hi
        THEN [A.a[i] EXCEPT ![col + 1] = vals[i - lo]]
        ELSE A.a[i]]]

\* A[lo:hi] = rows
SetRowSlice(A, lo, hi, rows) ==
  [A EXCEPT !.a = [i \in 1..NRows(A) |->
      IF i - 1 >= lo /\ i - 1 < hi THEN rows[i - lo] ELSE A.a[i]]]

Ok(v) == [status |-> "ok", value |-> v]
Raise(e) == [status |-> e, value |-> None]

(***************************************************************************)
(* sklearn.metrics.pairwise.check_pairwise_arrays, as cross_distances and  *)
(* differences call it: it raises ValueError for an array with no row or   *)
(* no column and for two arrays whose column counts differ, and otherwise  *)
(* returns the two arrays (as float arrays, values unchanged).             *)
(***************************************************************************)
\* check_pairwise_arrays without its shape checks
check_pairwise_arrays_nocheck(A, B) == Ok(<<A, B>>)

check_pairwise_arrays(A, B) ==
  IF NRows(A) < 1 \/ NCols(A) < 1 \/ NRows(B) < 1 \/ NCols(B) < 1
    THEN Raise("ValueError")
  ELSE IF NCols(A) # NCols(B) THEN Raise("ValueError")
  ELSE Ok(<<A, B>>)

(***************************************************************************)
(* cross_distances(X, y=None)                                              *)
(***************************************************************************)
\* cross_distances_self_loop with the operands of the difference exchanged
RECURSIVE cross_distances_self_loop_swapped(_, _, _, _, _)
cross_distances_self_loop_swapped(A, k, ll_1, ij, D) ==
  LET n_samples == NRows(A) IN
  IF k >= n_samples - 1 THEN <<D, ij>>
  ELSE LET ll_0 == ll_1
           ll_1n == ll_0 + n_samples - k - 1
           ij1 == SetColSlice(ij, ll_0, ll_1n, 0, [t \in 1..(ll_1n - ll_0) |-> k])
           ij2 == SetColSlice(ij1, ll_0, ll_1n, 1, Arange(k + 1, n_samples))
           D1 == SetRowSlice(D, ll_0, ll_1n,
                   [t \in 1..(n_samples - k - 1) |-> RowSub(A.a[k + 1 + t], A.a[k + 1])])
       IN cross_distances_self_loop_swapped(A, k + 1, ll_1n, ij2, D1)

\* the loop `for k in range(n_samples - 1)` of the branch `y is None`
RECURSIVE cross_distances_self_loop(_, _, _, _, _)
cross_distances_self_loop(A, k, ll_1, ij, D) ==
  LET n_samples == NRows(A) IN
  IF k >= n_samples - 1 THEN <<D, ij>>
  ELSE LET ll_0 == ll_1
           ll_1n == ll_0 + n_samples - k - 1
           ij1 == SetColSlice(ij, ll_0, ll_1n, 0, [t \in 1..(ll_1n - ll_0) |-> k])
           ij2 == SetColSlice(ij1, ll_0, ll_1n, 1, Arange(k + 1, n_samples))
           D1 == SetRowSlice(D, ll_0, ll_1n,
                   [t \in 1..(n_samples - k - 1) |-> RowSub(A.a[k + 1], A.a[k + 1 + t])])
       IN cross_distances_self_loop(A, k + 1, ll_1n, ij2, D1)

cross_distances_self(A) ==
  LET n_samples == NRows(A)
      n_features == NCols(A)
      n_nonzero_cross_dist == (n_samples * (n_samples - 1)) \div 2
  IN Ok(cross_distances_self_loop(A, 0, 0, IntZeros(n_nonzero_cross_dist, 2),
                                  Zeros(n_nonzero_cross_dist, n_features)))

\* cross_distances_cross with the row index taken modulo the wrong count
cross_distances_cross_mod_n_samples(A, B) ==
  LET n_samples == NRows(A)
      n_y == NRows(B)
      n_features == NCols(B)
      chk == check_pairwise_arrays(A, B)
  IN IF chk.status # "ok" THEN chk
     ELSE LET n_nonzero_cross_dist == n_samples * n_y
              xk(k) == k \div n_y
              yk(k) == (k % n_samples) % n_y
              rows == [k1 \in 1..n_nonzero_cross_dist |->
                         RowSub(A.a[xk(k1 - 1) + 1], B.a[yk(k1 - 1) + 1])]
              ij == [shape |-> <<n_nonzero_cross_dist, 2>>,
                     a |-> [k1 \in 1..n_nonzero_cross_dist |-> <<xk(k1 - 1), yk(k1 - 1)>>]]
          IN Ok(<<[shape |-> <<n_nonzero_cross_dist, n_features>>, a |-> rows], ij>>)

\* the branch `else` (y given)
cross_distances_cross(A, B) ==
  LET n_samples == NRows(A)
      n_y == NRows(B)
      n_features == NCols(B)
      chk == check_pairwise_arrays(A, B)
  IN IF chk.status # "ok" THEN chk
     ELSE LET A1 == chk.value[1]
              B1 == chk.value[2]
              n_nonzero_cross_dist == n_samples * n_y
              xk(k) == k \div n_y
              yk(k) == k % n_y
              rows == [k1 \in 1..n_nonzero_cross_dist |->
                         RowSub(A1.a[xk(k1 - 1) + 1], B1.a[yk(k1 - 1) + 1])]
              ij == [shape |-> <<n_nonzero_cross_dist, 2>>,
                     a |-> [k1 \in 1..n_nonzero_cross_dist |-> <<xk(k1 - 1), yk(k1 - 1)>>]]
          IN IF \E k1 \in 1..n_nonzero_cross_dist : Len(rows[k1]) # n_features
               THEN Raise("ValueError")
               ELSE Ok(<<[shape |-> <<n_nonzero_cross_dist, n_features>>, a |-> rows], ij>>)

cross_distances(A, B) ==
  IF B = None THEN cross_distances_self(A) ELSE cross_distances_cross(A, B[1])

(***************************************************************************)
(* differences(X, Y)                                                       *)
(***************************************************************************)
differences(A, B) ==
  LET chk == check_pairwise_arrays(A, B)
  IN IF chk.status # "ok" THEN chk
     ELSE LET A1 == chk.value[1]
              B1 == chk.value[2]
              n == NRows(A1)
              m == NRows(B1)
              \* X[:, np.newaxis, :] - Y[np.newaxis, :, :], shape (n, m, d)
              D3 == [i \in 1..n |-> [j \in 1..m |-> RowSub(A1.a[i], B1.a[j])]]
              \* .reshape((-1, X.shape[1])): C order, j fastest
              rows == [k1 \in 1..(n * m) |->
                         D3[((k1 - 1) \div m) + 1][((k1 - 1) % m) + 1]]
          IN IF \E k1 \in 1..(n * m) : Len(rows[k1]) # NCols(A1)
               THEN Raise("ValueError")
               ELSE Ok([shape |-> <<n * m, NCols(A1)>>, a |-> rows])

(***************************************************************************)
(* Variable-type descriptor: FLOAT and ORD are the strings "float_type"    *)
(* and "ord_type", a categorical variable is the tuple (ENUM, n_levels).   *)
(* An entry is the record [kind, n]; n is the level count of a tuple.      *)
(***************************************************************************)
FLOAT == [kind |-> "float_type", n |-> 0]
ORD == [kind |-> "ord_type", n |-> 0]
ENUM(nl) == [kind |-> "enum_type", n |-> nl]

\* isinstance(xtyp, tuple)
IsTuple(xtyp) == xtyp.kind = "enum_type"

\* boolean masks: the 1-based indices a mask selects, in ascending order
RECURSIVE TrueIdx(_, _)
TrueIdx(mask, i) ==
  IF i > Len(mask) THEN <<>>
  ELSE IF mask[i] THEN <<i>> \o TrueIdx(mask, i + 1) ELSE TrueIdx(mask, i + 1)

\* np.logical_not(mask)
LogicalNot(mask) == [i \in 1..Len(mask) |-> ~mask[i]]

\* M[:, mask]: a new array
SelectCols(M, mask) ==
  LET idx == TrueIdx(mask, 1)
  IN [shape |-> <<NRows(M), Len(idx)>>,
      a |-> [i \in 1..NRows(M) |-> [t \in 1..Len(idx) |-> M.a[i][idx[t]]]]]

\* M[:, mask] = N
AssignCols(M, mask, N) ==
  LET idx == TrueIdx(mask, 1)
      rank(c) == CHOOSE t \in 1..Len(idx) : idx[t] = c
  IN [M EXCEPT !.a = [i \in 1..NRows(M) |-> [c \in 1..NCols(M) |->
        IF mask[c] THEN N.a[i][rank(c)] ELSE M.a[i][c]]]]

\* M[lo:hi] (0-based, hi exclusive): rows as a sequence
RowSlice(M, lo, hi) == [t \in 1..(IF hi > lo THEN hi - lo ELSE 0) |-> M.a[lo + t]]

\* np.concatenate((A, B)) along axis 0
Concatenate(A, B) ==
  [shape |-> <<NRows(A) + NRows(B), NCols(A)>>, a |-> A.a \o B.a]

(***************************************************************************)
(* compute_X_cont(x, xtypes)                                               *)
(***************************************************************************)
compute_X_cont(x, xt) ==
  LET cat_features == [i \in 1..Len(xt) |->
                         ~(xt[i].kind = "float_type" \/ xt[i].kind = "ord_type")]
  IN \* a boolean index whose length is not the column count: IndexError
     IF Len(cat_features) # NCols(x) THEN Raise("IndexError")
     ELSE Ok(<<SelectCols(x, LogicalNot(cat_features)), cat_features>>)

(***************************************************************************)
(* gower_componentwise_distances(X, y=None, xtypes=None)                   *)
(*                                                                         *)
(* The caller's arrays are heap objects: X.astype makes a private copy of  *)
(* X, `Y = y` is the caller's own array, and X_norma / Y_norma are other   *)
(* names of these two objects.  The result record carries the returned     *)
(* value, the caller's y as the call leaves it, and the locals.            *)
(***************************************************************************)
GRet(st, v, yafter, locals) ==
  [status |-> st, value |-> v, y_after |-> yafter, locals |-> locals]

\* astype(np.float32) of a column: the values of the model are small dyadic
\* rationals, which float32 holds exactly
AsFloat32(v) == v

\* np.nanmax / np.nanmin of a non-empty column, then `if np.isnan(..): .. = 0.0`
NanMax(col) ==
  LET vs == {col[i] : i \in 1..Len(col)} \ {QNan}
  IN IF vs = {} THEN Q(0) ELSE CHOOSE v \in vs : \A w \in vs : ~QLess(v, w)

NanMin(col) ==
  LET vs == {col[i] : i \in 1..Len(col)} \ {QNan}
  IN IF vs = {} THEN Q(0) ELSE CHOOSE v \in vs : \A w \in vs : ~QLess(w, v)

\* num_ranges[col] = (1 - min / max) if (max != 0) else 0.0
NumRange(mn, mx) == IF mx # Q(0) THEN QSub(Q(1), QDiv(mn, mx)) ELSE Q(0)

\* np.divide without its `where` guard
DivideUnguarded(a, b) == QDiv(a, b)

\* np.divide(a, b, out=np.zeros_like(a), where=b != 0), one entry
DivideWhere(a, b) == IF b # Q(0) THEN QDiv(a, b) ELSE Q(0)

\* the loop filling ij and D_num in the branch `y is None`
RECURSIVE gower_num_loop(_, _, _, _, _, _, _)
gower_num_loop(X_num, Y_num, num_ranges, k, ll_1, ij, D_num) ==
  LET n_samples == NRows(X_num) IN
  IF k >= n_samples - 1 THEN <<D_num, ij>>
  ELSE LET ll_0 == ll_1
           ll_1n == ll_0 + n_samples - k - 1
           ij1 == SetColSlice(ij, ll_0, ll_1n, 0, [t \in 1..(ll_1n - ll_0) |-> k])
           ij2 == SetColSlice(ij1, ll_0, ll_1n, 1, Arange(k + 1, n_samples))
           Yk == RowSlice(Y_num, k + 1, n_samples)
           abs_delta == [t \in 1..Len(Yk) |-> [c \in 1..NCols(X_num) |->
                           QAbs(QSub(X_num.a[k + 1][c], Yk[t][c]))]]
           D1 == SetRowSlice(D_num, ll_0, ll_1n,
                   [t \in 1..Len(Yk) |-> [c \in 1..NCols(X_num) |->
                      DivideWhere(abs_delta[t][c], num_ranges[c])]])
       IN gower_num_loop(X_num, Y_num, num_ranges, k + 1, ll_1n, ij2, D1)

\* gower_cat_loop comparing X_cat[k] with the rows k .. n-2 instead of k+1 .. n-1
RECURSIVE gower_cat_loop_shifted(_, _, _, _, _)
gower_cat_loop_shifted(X_cat, Y_cat, k, ll_1, D_cat) ==
  LET n_samples == NRows(X_cat) IN
  IF k >= n_samples - 1 THEN D_cat
  ELSE LET ll_0 == ll_1
           ll_1n == ll_0 + n_samples - k - 1
           Yk == RowSlice(Y_cat, k, n_samples - 1)
           D1 == SetRowSlice(D_cat, ll_0, ll_1n,
                   [t \in 1..Len(Yk) |-> [c \in 1..NCols(X_cat) |->
                      IF X_cat.a[k + 1][c] = Yk[t][c] THEN Q(0) ELSE Q(1)]])
       IN gower_cat_loop_shifted(X_cat, Y_cat, k + 1, ll_1n, D1)

\* the loop filling D_cat in the branch `y is None`
RECURSIVE gower_cat_loop(_, _, _, _, _)
gower_cat_loop(X_cat, Y_cat, k, ll_1, D_cat) ==
  LET n_samples == NRows(X_cat) IN
  IF k >= n_samples - 1 THEN D_cat
  ELSE LET ll_0 == ll_1
           ll_1n == ll_0 + n_samples - k - 1
           Yk == RowSlice(Y_cat, k + 1, n_samples)
           D1 == SetRowSlice(D_cat, ll_0, ll_1n,
                   [t \in 1..Len(Yk) |-> [c \in 1..NCols(X_cat) |->
                      IF X_cat.a[k + 1][c] = Yk[t][c] THEN Q(0) ELSE Q(1)]])
       IN gower_cat_loop(X_cat, Y_cat, k + 1, ll_1n, D1)

\* lines 288-310: Z, the numeric columns, and the per-column max and range
\* of the reference set Y
gower_ranges(Xl, Y, cat_features) ==
  LET not_cat == LogicalNot(cat_features)
      Z == Concatenate(Xl, Y)
      Y_num0 == SelectCols(Y, not_cat)
      num_cols == NCols(Y_num0)
      col_array(col) == [i \in 1..NRows(Y) |-> AsFloat32(Y_num0.a[i][col])]
  IN [Z |-> Z,
      Z_num |-> SelectCols(Z, not_cat),
      num_max |-> [col \in 1..num_cols |-> NanMax(col_array(col))],
      num_ranges |-> [col \in 1..num_cols |->
                        NumRange(NanMin(col_array(col)), NanMax(col_array(col)))]]

\* lines 313-328: the numeric columns divided by num_max, and the four blocks
gower_blocks(rg, x_n_rows, y_n_rows, cat_features) ==
  LET num_cols == Len(rg.num_max)
      Z_num == [rg.Z_num EXCEPT !.a = [i \in 1..NRows(rg.Z_num) |-> [c \in 1..num_cols |->
                   DivideWhere(rg.Z_num.a[i][c], rg.num_max[c])]]]
      Z_cat == SelectCols(rg.Z, cat_features)
  IN [Z_num |-> Z_num,
      X_cat |-> [shape |-> <<x_n_rows, NCols(Z_cat)>>, a |-> RowSlice(Z_cat, 0, x_n_rows)],
      X_num |-> [shape |-> <<x_n_rows, num_cols>>, a |-> RowSlice(Z_num, 0, x_n_rows)],
      Y_cat |-> [shape |-> <<y_n_rows, NCols(Z_cat)>>,
                 a |-> RowSlice(Z_cat, x_n_rows, x_n_rows + y_n_rows)],
      Y_num |-> [shape |-> <<y_n_rows, num_cols>>,
                 a |-> RowSlice(Z_num, x_n_rows, x_n_rows + y_n_rows)]]

\* lines 330-333: X_norma = X; Y_norma = Y, and the two slice assignments.
\* With y None, Y is the private copy of X and both names are that one
\* array; with y given, Y_norma is the caller's y.
gower_norma(Xl, Y, self, cat_features, bl) ==
  LET not_cat == LogicalNot(cat_features)
      Xl1 == AssignCols(Xl, not_cat, bl.X_num)
  IN IF self
       THEN [X_norma |-> AssignCols(Xl1, not_cat, bl.Y_num),
             Y_norma |-> AssignCols(Xl1, not_cat, bl.Y_num)]
       ELSE [X_norma |-> Xl1,
             Y_norma |-> AssignCols(Y, not_cat, bl.Y_num)]

\* lines 335-376: the branch `y is None`
gower_self(bl, num_ranges, cat_features) ==
  LET n_samples == NRows(bl.X_num)
      num_cols == NCols(bl.X_num)
      n_nonzero_cross_dist == (n_samples * (n_samples - 1)) \div 2
      D0 == Zeros(n_nonzero_cross_dist, NCols(bl.X_cat) + num_cols)
  IN CHOOSE r \in
       {<<AssignCols(AssignCols(D0, LogicalNot(cat_features), num[1]), cat_features, D_cat),
          num[2]>> :
          num \in {gower_num_loop(bl.X_num, bl.Y_num, num_ranges, 0, 0,
                                  IntZeros(n_nonzero_cross_dist, 2),
                                  Zeros(n_nonzero_cross_dist, num_cols))},
          D_cat \in {gower_cat_loop(bl.X_cat, bl.Y_cat, 0, 0,
                                    Zeros(n_nonzero_cross_dist, NCols(bl.X_cat)))}} : TRUE

\* lines 378-389: the branch `else` (y given)
gower_cross(nm, num_ranges, cat_features) ==
  LET n == NRows(nm.X_norma)
      m == NRows(nm.Y_norma)
      d == NCols(nm.X_norma)
      idx == TrueIdx(LogicalNot(cat_features), 1)
      rank(c) == CHOOSE t \in 1..Len(idx) : idx[t] = c
      \* np.abs(D) after the reshape to (n * m, d): C order, j fastest
      Dabs(k1, c) == QAbs(QSub(nm.X_norma.a[((k1 - 1) \div m) + 1][c],
                               nm.Y_norma.a[((k1 - 1) % m) + 1][c]))
  IN [shape |-> <<n * m, d>>,
      a |-> [k1 \in 1..(n * m) |-> [c \in 1..d |->
         IF cat_features[c]
           THEN (IF QLess(<<1, 2>>, Dabs(k1, c)) THEN Q(1) ELSE Q(0))
           ELSE DivideWhere(Dabs(k1, c), num_ranges[rank(c)])]]]

\* lines 288-389, once the shape checks have passed.  Each stage is
\* evaluated once and handed to the next as a value.
gower_body(Xl, yc, X_cont, cat_features) ==
  LET Y == IF yc = None THEN Xl ELSE yc[1]
      self == yc = None
      locals(rg, bl) == [num_max |-> rg.num_max, num_ranges |-> rg.num_ranges,
                         Z_num |-> bl.Z_num, cat_features |-> cat_features]
      finish(rg, bl, nm) ==
        IF self
          THEN LET r == gower_self(bl, rg.num_ranges, cat_features)
               IN GRet("ok", <<r[1], r[2], X_cont>>, None, locals(rg, bl))
          ELSE GRet("ok", gower_cross(nm, rg.num_ranges, cat_features),
                    Some(nm.Y_norma), locals(rg, bl))
      stage3(rg, bl) ==
        CHOOSE r \in {finish(rg, bl, nm) :
                        nm \in {gower_norma(Xl, Y, self, cat_features, bl)}} : TRUE
      stage2(rg) ==
        CHOOSE r \in {stage3(rg, bl) :
                        bl \in {gower_blocks(rg, NRows(Xl), NRows(Y), cat_features)}} : TRUE
  IN CHOOSE r \in {stage2(rg) : rg \in {gower_ranges(Xl, Y, cat_features)}} : TRUE

gower_checked(Xl, yc, cx) ==
  IF cx.status # "ok" THEN GRet(cx.status, None, yc, NoLoc)
  ELSE
  LET X_cont == cx.value[1]
      cat_features == cx.value[2]
      Y == IF yc = None THEN Xl ELSE yc[1]
  IN
  IF NCols(Xl) # NCols(Y) THEN GRet("TypeError", None, yc, NoLoc)
  \* np.nanmax of an empty column raises ValueError
  ELSE IF (\E c \in 1..Len(cat_features) : ~cat_features[c]) /\ NRows(Y) = 0
    THEN GRet("ValueError", None, yc, NoLoc)
  ELSE gower_body(Xl, yc, X_cont, cat_features)

\* X = X.astype(np.float) makes the private copy Xl of the caller's X
gower_componentwise_distances(Xc, yc, xt) ==
  CHOOSE r \in {gower_checked(Xc, yc, cx) : cx \in {compute_X_cont(Xc, xt)}} : TRUE

(***************************************************************************)
(* cross_levels(X, ij, xtypes, y=None)                                     *)
(***************************************************************************)
\* the loop of lines 163-165: the level counts of the tuples, in order
RECURSIVE n_levels_of(_, _)
n_levels_of(xt, i) ==
  IF i > Len(xt) THEN <<>>
  ELSE IF IsTuple(xt[i]) THEN <<xt[i].n>> \o n_levels_of(xt, i + 1)
  ELSE n_levels_of(xt, i + 1)

\* cross_levels_filled that reads the levels of the next pair of the list
cross_levels_filled_next_pair(X_cat, y_cat, ij, n_var) ==
  LET n == NRows(ij)
      pair(l) == ij.a[(l % n) + 1]
  IN [k \in 1..n_var |-> [l \in 1..n |->
        <<X_cat.a[pair(l)[1] + 1][k], y_cat.a[pair(l)[2] + 1][k]>>]]

\* lines 172-182: Lij[k][l] = (X_cat[i, k], X_cat[j, k] or y_cat[j, k])
\* with i, j = ij[l]
cross_levels_filled(X_cat, y_cat, ij, n_var) ==
  LET n == NRows(ij)
  IN [k \in 1..n_var |-> [l \in 1..n |->
        <<X_cat.a[ij.a[l][1] + 1][k], y_cat.a[ij.a[l][2] + 1][k]>>]]

cross_levels_checked(Xc, ij, xt, yc, cx) ==
  IF cx.status # "ok" THEN cx
  ELSE LET n_levels == n_levels_of(xt, 1)
           n_var == Len(n_levels)
           cat_features == cx.value[2]
           X_cat == SelectCols(Xc, cat_features)
           y_cat == IF yc = None THEN X_cat ELSE SelectCols(yc[1], cat_features)
       IN Ok(<<cross_levels_filled(X_cat, y_cat, ij, n_var), n_levels>>)

cross_levels(Xc, ij, xt, yc) ==
  CHOOSE r \in {cross_levels_checked(Xc, ij, xt, yc, cx) :
                  cx \in {compute_X_cont(Xc, xt)}} : TRUE

(***************************************************************************)
(* compute_n_param(xtypes, cat_kernel)                                     *)
(***************************************************************************)
FULL_GAUSSIAN == "full_gaussian_matrix_kernel"
HOMO_GAUSSIAN == "homoscedastic_gaussian_matrix_kernel"

\* int(n * (n + 1) / 2) and int(n * (n - 1) / 2): the product of two
\* consecutive integers is even, the float division is exact
NFull(n) == (n * (n + 1)) \div 2
NHomo(n) == (n * (n - 1)) \div 2

RECURSIVE compute_n_param_loop(_, _, _, _)
compute_n_param_loop(xt, cat_kernel, i, n_param) ==
  IF i > Len(xt) THEN n_param
  ELSE IF IsTuple(xt[i])
    THEN compute_n_param_loop(xt, cat_kernel, i + 1,
           n_param + (IF cat_kernel = FULL_GAUSSIAN THEN NFull(xt[i].n) ELSE 0)
                   + (IF cat_kernel = HOMO_GAUSSIAN THEN NHomo(xt[i].n) ELSE 0))
    ELSE compute_n_param_loop(xt, cat_kernel, i + 1, n_param + 1)

compute_n_param(xt, cat_kernel) == compute_n_param_loop(xt, cat_kernel, 1, 0)

(***************************************************************************)
(* componentwise_distance(D, corr, dim), return_derivative = False         *)
(***************************************************************************)
QMul(a, b) ==
  IF QFinite(a) /\ QFinite(b) THEN QNorm(a[1] * b[1], a[2] * b[2]) ELSE QNan

QAdd(a, b) ==
  IF QFinite(a) /\ QFinite(b) THEN QNorm(a[1] * b[2] + b[1] * a[2], a[2] * b[2])
  ELSE QNan

\* limit = int(1e4)
nb_limit == 10 ^ 4

\* the right-hand side of one chunk assignment, row by row
componentwise_row(corr, row) ==
  [c \in 1..Len(row) |->
     IF corr = "squar_exp" THEN QMul(row[c], row[c])
     ELSE IF corr = "act_exp" THEN row[c]
     ELSE QAbs(row[c])]

\* the loop `while True` of lines 1247-1264 with chunks of nb rows
RECURSIVE componentwise_distance_loop(_, _, _, _, _)
componentwise_distance_loop(D, corr, i, D_corr, nb) ==
  IF i * nb > NRows(D_corr) THEN Ok(D_corr)
  ELSE LET lo == i * nb
           hi == IF (i + 1) * nb < NRows(D) THEN (i + 1) * nb ELSE NRows(D)
           dim == NCols(D_corr)
           \* numpy broadcasts a one-column right-hand side
           fit(row) == IF Len(row) = dim THEN row ELSE [c \in 1..dim |-> row[1]]
       IN IF hi > lo /\ NCols(D) # dim /\ NCols(D) # 1 THEN Raise("ValueError")
          ELSE componentwise_distance_loop(D, corr, i + 1,
                 SetRowSlice(D_corr, lo, hi,
                   [t \in 1..(IF hi > lo THEN hi - lo ELSE 0) |->
                      fit(componentwise_row(corr, D.a[lo + t]))]), nb)

componentwise_distance(D, corr, dim) ==
  componentwise_distance_loop(D, corr, 0, Zeros(NRows(D), dim), nb_limit)

(***************************************************************************)
(* Correlation values are modelled in fixed point: the integer v stands    *)
(* for v / Scale, every product and quotient is rounded to the nearest     *)
(* unit.  exp is its Taylor polynomial on (-1, 1) extended by              *)
(* exp(x -+ 1) = exp(x) * e^(-+1).  An angle is a fraction of the quarter  *)
(* turn pi/2, [turn |-> q]; cos and sin are tabulated on the fractions     *)
(* 0, 1/3, 1/2, 2/3 and 1.                                                 *)
(***************************************************************************)
Scale == 10 ^ 4

\* a / b rounded to the nearest integer (b > 0)
Round(a, b) ==
  IF a >= 0 THEN (2 * a + b) \div (2 * b) ELSE -((2 * (-a) + b) \div (2 * b))

MulFix(a, b) == Round(a * b, Scale)
DivFix(a, b) == Round(a * Scale, b)

\* the same product for factors of any size and sign, without an intermediate
\* beyond the word: both factors are split at Scale
MulWide(a, b) ==
  LET m == IAbs(a)
      n == IAbs(b)
  IN ISign(a) * ISign(b) *
       ((m \div Scale) * (n \div Scale) * Scale + (m \div Scale) * (n % Scale)
        + (m % Scale) * (n \div Scale) + Round((m % Scale) * (n % Scale), Scale))
ToFix(q) == Round(q[1] * Scale, q[2])

\* Horner form of the Taylor polynomial of degree 8 of exp at f / Scale
RECURSIVE ExpHorner(_, _)
ExpHorner(f, n) ==
  IF n > 8 THEN Scale ELSE Scale + Round(f * ExpHorner(f, n + 1), n * Scale)

\* np.exp
RECURSIVE ExpFix(_)
ExpFix(x) ==
  IF x <= -Scale THEN MulWide(3679, ExpFix(x + Scale))
  ELSE IF x >= Scale THEN MulWide(27183, ExpFix(x - Scale))
  ELSE ExpHorner(x, 1)

Turn(q) == [turn |-> q]

\* np.cos
CosFix(ang) ==
  CASE ang.turn = <<0, 1>> -> Scale
    [] ang.turn = <<1, 3>> -> 8660
    [] ang.turn = <<1, 2>> -> 7071
    [] ang.turn = <<2, 3>> -> 5000
    [] ang.turn = <<1, 1>> -> 0

\* np.sin
SinFix(ang) == CosFix(Turn(QSub(Q(1), ang.turn)))

(***************************************************************************)
(* abs_exp(theta, d) and squar_exp(theta, d), value only (grad_ind,        *)
(* hess_ind and derivative_params are None): r = exp(-sum(theta * d)).     *)
(***************************************************************************)
RECURSIVE SumProd(_, _, _)
SumProd(th, row, c) ==
  IF c > Len(row) THEN Q(0) ELSE QAdd(QMul(th[c], row[c]), SumProd(th, row, c + 1))

\* the loop `while i * nb_limit <= d.shape[0]` with chunks of nb rows
RECURSIVE exp_kernel_loop(_, _, _, _, _)
exp_kernel_loop(th, d, i, r, nb) ==
  IF ~(i * nb <= NRows(d)) THEN r
  ELSE LET lo == i * nb
           hi == IF (i + 1) * nb < NRows(d) THEN (i + 1) * nb ELSE NRows(d)
       IN exp_kernel_loop(th, d, i + 1,
            [k \in 1..NRows(d) |->
               IF k - 1 >= lo /\ k - 1 < hi
                 THEN ExpFix(-ToFix(SumProd(th, d.a[k], 1)))
                 ELSE r[k]], nb)

abs_exp(th, d) ==
  \* theta.reshape(1, n_components)
  IF Len(th) # NCols(d) THEN Raise("ValueError")
  ELSE Ok(exp_kernel_loop(th, d, 0, [k \in 1..NRows(d) |-> 0], nb_limit))

squar_exp(th, d) ==
  IF Len(th) # NCols(d) THEN Raise("ValueError")
  ELSE Ok(exp_kernel_loop(th, d, 0, [k \in 1..NRows(d) |-> 0], nb_limit))

correlation_types(corr, th, d) ==
  CASE corr = "abs_exp" -> abs_exp(th, d)
    [] corr = "squar_exp" -> squar_exp(th, d)
    [] OTHER -> Raise("KeyError")

(***************************************************************************)
(* matrix_data_corr(corr, theta, theta_bounds, d, Lij, nlevels,            *)
(*                  cat_features, cat_kernel)                              *)
(*                                                                         *)
(* theta is a float array, modelled as a sequence of rationals;            *)
(* theta_bounds is the pair (lower, bound) of whole numbers.  The result   *)
(* record carries the returned column r and the locals of the call.        *)
(***************************************************************************)
MRet(st, v, locals) == [status |-> st, value |-> v, locals |-> locals]

\* int(x) of a float: truncation toward zero
IntOf(q) == ISign(q[1]) * (IAbs(q[1]) \div q[2])

\* a[mask] for a one-dimensional array: a new array
MaskSelect(a, mask) ==
  LET idx == TrueIdx(mask, 1) IN [t \in 1..Len(idx) |-> a[idx[t]]]

\* the column i (0-based) of a two-dimensional boolean array
MaskColumn(M, i) == [p \in 1..Len(M) |-> M[p][i + 1]]

\* one pass of the loop `for feat in cat_features` in which the
\* homoscedastic variant reserves the entry count of the full variant
matrix_data_corr_mask_step_full_count(feat, nlevels, cat_kernel, st) ==
  IF st.status # "ok" THEN st
  ELSE IF feat THEN
    IF st.i >= Len(nlevels) THEN [st EXCEPT !.status = "IndexError"]
    ELSE LET nl == nlevels[st.i + 1]
             n == IF cat_kernel = FULL_GAUSSIAN THEN NFull(nl)
                  ELSE IF cat_kernel = HOMO_GAUSSIAN THEN NFull(nl) ELSE 0
             len == Len(st.theta_cont_features)
             hi == IF st.j + n < len THEN st.j + n ELSE len
             m == IF hi > st.j THEN hi - st.j ELSE 0
         IN IF m # n /\ n # 1 THEN [st EXCEPT !.status = "ValueError"]
            ELSE [status |-> "ok", i |-> st.i + 1, j |-> st.j + n,
                  theta_cont_features |->
                    [p \in 1..len |-> IF p - 1 >= st.j /\ p - 1 < hi THEN FALSE
                                      ELSE st.theta_cont_features[p]],
                  theta_cat_features |->
                    [p \in 1..len |-> IF p - 1 >= st.j /\ p - 1 < hi
                       THEN [st.theta_cat_features[p] EXCEPT ![st.i + 1] = TRUE]
                       ELSE st.theta_cat_features[p]]]
  ELSE IF st.j >= Len(st.theta_cont_features) THEN [st EXCEPT !.status = "IndexError"]
  ELSE [st EXCEPT !.j = st.j + 1, !.theta_cont_features[st.j + 1] = TRUE]

\* one pass of the loop `for feat in cat_features`, lines 441-461; st holds
\* i, j and the two masks
matrix_data_corr_mask_step(feat, nlevels, cat_kernel, st) ==
  IF st.status # "ok" THEN st
  ELSE IF feat THEN
    IF st.i >= Len(nlevels) THEN [st EXCEPT !.status = "IndexError"]
    ELSE LET nl == nlevels[st.i + 1]
             n == IF cat_kernel = FULL_GAUSSIAN THEN NFull(nl)
                  ELSE IF cat_kernel = HOMO_GAUSSIAN THEN NHomo(nl) ELSE 0
             len == Len(st.theta_cont_features)
             \* a slice stops at the end of the array
             hi == IF st.j + n < len THEN st.j + n ELSE len
             m == IF hi > st.j THEN hi - st.j ELSE 0
         IN \* [True] * n does not fit a shorter slice unless n is 1
            IF m # n /\ n # 1 THEN [st EXCEPT !.status = "ValueError"]
            ELSE [status |-> "ok", i |-> st.i + 1, j |-> st.j + n,
                  theta_cont_features |->
                    [p \in 1..len |-> IF p - 1 >= st.j /\ p - 1 < hi THEN FALSE
                                      ELSE st.theta_cont_features[p]],
                  theta_cat_features |->
                    [p \in 1..len |-> IF p - 1 >= st.j /\ p - 1 < hi
                       THEN [st.theta_cat_features[p] EXCEPT ![st.i + 1] = TRUE]
                       ELSE st.theta_cat_features[p]]]
  ELSE IF st.j >= Len(st.theta_cont_features) THEN [st EXCEPT !.status = "IndexError"]
  ELSE [st EXCEPT !.j = st.j + 1, !.theta_cont_features[st.j + 1] = TRUE]

\* lines 436-461
RECURSIVE matrix_data_corr_masks_loop(_, _, _, _, _)
matrix_data_corr_masks_loop(cat_features, nlevels, cat_kernel, f, st) ==
  IF f > Len(cat_features) THEN st
  ELSE CHOOSE r \in {matrix_data_corr_masks_loop(cat_features, nlevels, cat_kernel, f + 1, s1) :
                       s1 \in {matrix_data_corr_mask_step(cat_features[f], nlevels,
                                                          cat_kernel, st)}} : TRUE

matrix_data_corr_masks(theta, nlevels, cat_features, cat_kernel) ==
  matrix_data_corr_masks_loop(cat_features, nlevels, cat_kernel, 1,
    [status |-> "ok", i |-> 0, j |-> 0,
     theta_cont_features |-> [p \in 1..Len(theta) |-> FALSE],
     theta_cat_features |-> [p \in 1..Len(theta) |-> [c \in 1..Len(nlevels) |-> FALSE]]])

\* lines 470-476: the slice of factor i and its scaling to angles
matrix_data_corr_theta_cat(theta, theta_cat_features, i, nlevels, theta_bounds, cat_kernel) ==
  LET raw == MaskSelect(theta, MaskColumn(theta_cat_features, i))
      n == Len(raw)
      scaled(p) == Turn(QDiv(raw[p], Q(theta_bounds[2])))
  IN IF cat_kernel = FULL_GAUSSIAN
       THEN [p \in 1..n |-> IF p <= n - nlevels[i + 1] THEN scaled(p) ELSE raw[p]]
     ELSE IF cat_kernel = HOMO_GAUSSIAN THEN [p \in 1..n |-> scaled(p)]
     ELSE raw

\* matrix_data_corr_Theta_mat with v left at its first value
RECURSIVE matrix_data_corr_Theta_mat_fixed_v(_, _, _, _, _, _)
matrix_data_corr_Theta_mat_fixed_v(theta_cat, nl, j, k, v, M) ==
  IF j >= nl THEN M
  ELSE IF k >= nl - j THEN matrix_data_corr_Theta_mat_fixed_v(theta_cat, nl, j + 1, 0, v, M)
  ELSE IF j = k + j
    THEN matrix_data_corr_Theta_mat_fixed_v(theta_cat, nl, j, k + 1, v,
           [M EXCEPT ![j + 1][k + j + 1] = Q(1)])
    ELSE matrix_data_corr_Theta_mat_fixed_v(theta_cat, nl, j, k + 1, v,
           [M EXCEPT ![j + 1][k + j + 1] = theta_cat[v + 1],
                     ![k + j + 1][j + 1] = theta_cat[v + 1]])

\* lines 478-488: the symmetric matrix of angles
RECURSIVE matrix_data_corr_Theta_mat(_, _, _, _, _, _)
matrix_data_corr_Theta_mat(theta_cat, nl, j, k, v, M) ==
  IF j >= nl THEN M
  ELSE IF k >= nl - j THEN matrix_data_corr_Theta_mat(theta_cat, nl, j + 1, 0, v, M)
  ELSE IF j = k + j
    THEN matrix_data_corr_Theta_mat(theta_cat, nl, j, k + 1, v,
           [M EXCEPT ![j + 1][k + j + 1] = Q(1)])
    ELSE matrix_data_corr_Theta_mat(theta_cat, nl, j, k + 1, v + 1,
           [M EXCEPT ![j + 1][k + j + 1] = theta_cat[v + 1],
                     ![k + j + 1][j + 1] = theta_cat[v + 1]])

\* `for l in range(j): L[row, col] = L[row, col] * np.sin(Theta_mat[row, l])`
RECURSIVE SinProd(_, _, _, _, _)
SinProd(Theta_mat, row, l, j, acc) ==
  IF l >= j THEN acc
  ELSE SinProd(Theta_mat, row, l + 1, j, MulFix(acc, SinFix(Theta_mat[row + 1][l + 1])))

\* lines 479, 490-507: the lower-triangular hypersphere factor
matrix_data_corr_L(Theta_mat, nl) ==
  [r \in 1..nl |-> [c \in 1..nl |->
     IF c > r THEN 0
     ELSE IF c = r THEN SinProd(Theta_mat, r - 1, 0, r - 1, Scale)
     ELSE SinProd(Theta_mat, r - 1, 0, c - 1, CosFix(Theta_mat[r][c]))]]

\* np.dot(L, L.T)[a, b]
RECURSIVE DotRows(_, _, _)
DotRows(u, w, c) ==
  IF c > Len(u) THEN 0 ELSE MulFix(u[c], w[c]) + DotRows(u, w, c + 1)

\* lines 509-513.  (T - 1) * bound / 2 followed by 2 * T is (T - 1) * bound:
\* halving and doubling are exact in binary floating point.
matrix_data_corr_T(L, nl, theta_bounds) ==
  LET eb == ExpFix(-(theta_bounds[2] * Scale))
      kk == DivFix(Scale + eb, ExpFix(-(theta_bounds[1] * Scale)))
  IN [a \in 1..nl |-> [b \in 1..nl |->
        DivFix(ExpFix((DotRows(L[a], L[b], 1) - Scale) * theta_bounds[2]) + eb, kk)]]

\* lines 470-513 for factor i: each stage is evaluated once and handed to
\* the next as a value
matrix_data_corr_block(theta, theta_cat_features, i, nlevels, theta_bounds, cat_kernel) ==
  LET nl == nlevels[i + 1]
      stage3(tc, Tm, L) ==
        CHOOSE r \in {[theta_cat |-> tc, Theta_mat |-> Tm, L |-> L, T |-> T] :
                        T \in {matrix_data_corr_T(L, nl, theta_bounds)}} : TRUE
      stage2(tc, Tm) ==
        CHOOSE r \in {stage3(tc, Tm, L) : L \in {matrix_data_corr_L(Tm, nl)}} : TRUE
      stage1(tc) ==
        CHOOSE r \in {stage2(tc, Tm) :
                        Tm \in {matrix_data_corr_Theta_mat(tc, nl, 0, 0, 0,
                                  [a \in 1..nl |-> [b \in 1..nl |-> Q(0)]])}} : TRUE
  IN CHOOSE r \in {stage1(tc) :
                     tc \in {matrix_data_corr_theta_cat(theta, theta_cat_features, i,
                               nlevels, theta_bounds, cat_kernel)}} : TRUE

\* matrix_data_corr_r_cat that leaves the entry of a pair of equal levels
\* as the previous factor wrote it
matrix_data_corr_r_cat_stale(pair, blk, nl, cat_kernel, old) ==
  LET indi == IntOf(pair[1])
      indj == IntOf(pair[2])
  IN IF indi = indj THEN old
     ELSE IF cat_kernel = FULL_GAUSSIAN
       THEN MulFix(ExpFix(-ToFix(QAdd(blk.theta_cat[NHomo(nl) + indi + 1],
                                      blk.theta_cat[NHomo(nl) + indj + 1]))),
                   blk.T[indi + 1][indj + 1])
     ELSE IF cat_kernel = HOMO_GAUSSIAN THEN blk.T[indi + 1][indj + 1]
     ELSE old

\* lines 516-527: the entry r_cat[k, 0] of one pair; old is the entry as
\* the previous factor left it
matrix_data_corr_r_cat(pair, blk, nl, cat_kernel, old) ==
  LET indi == IntOf(pair[1])
      indj == IntOf(pair[2])
  IN IF indi = indj THEN Scale
     ELSE IF cat_kernel = FULL_GAUSSIAN
       THEN MulFix(ExpFix(-ToFix(QAdd(blk.theta_cat[NHomo(nl) + indi + 1],
                                      blk.theta_cat[NHomo(nl) + indj + 1]))),
                   blk.T[indi + 1][indj + 1])
     ELSE IF cat_kernel = HOMO_GAUSSIAN THEN blk.T[indi + 1][indj + 1]
     ELSE old

\* one pass of the loop `for i in range(len(nlevels))`, lines 470-528
matrix_data_corr_factor(a, i, st, blk) ==
  LET Lij_i == a.Lij[i + 1]
      r_cat == [k \in 1..Len(st.r_cat) |->
                  IF k <= Len(Lij_i)
                    THEN matrix_data_corr_r_cat(Lij_i[k], blk, a.nlevels[i + 1],
                                                a.cat_kernel, st.r_cat[k])
                    ELSE st.r_cat[k]]
  IN [r |-> [k \in 1..Len(st.r) |-> MulFix(st.r[k], r_cat[k])],
      r_cat |-> r_cat,
      T |-> Append(st.T, blk.T),
      theta_cat |-> Append(st.theta_cat, blk.theta_cat)]

RECURSIVE matrix_data_corr_loop(_, _, _)
matrix_data_corr_loop(a, i, st) ==
  IF i >= Len(a.nlevels) THEN st
  ELSE CHOOSE r \in {matrix_data_corr_loop(a, i + 1, s1) :
         s1 \in {matrix_data_corr_factor(a, i, st, blk) :
           blk \in {matrix_data_corr_block(a.theta, a.theta_cat_features, i, a.nlevels,
                                           a.theta_bounds, a.cat_kernel)}}} : TRUE

\* lines 463-529, once the masks are built
matrix_data_corr_masked(corr, theta, theta_bounds, d, Lij, nlevels, cat_features, cat_kernel, mk) ==
  IF mk.status # "ok" THEN MRet(mk.status, None, NoLoc)
  \* a boolean index whose length is not the column count: IndexError
  ELSE IF Len(cat_features) # NCols(d) THEN MRet("IndexError", None, NoLoc)
  ELSE
  LET theta_cont == MaskSelect(theta, mk.theta_cont_features)
      d_cont == SelectCols(d, LogicalNot(cat_features))
      finish(rc, st) ==
        MRet("ok", st.r,
             [theta_cont_features |-> mk.theta_cont_features,
              theta_cat_features |-> mk.theta_cat_features,
              j |-> mk.j, r_cont |-> rc.value, T |-> st.T, theta_cat |-> st.theta_cat])
      run(rc) ==
        IF rc.status # "ok" THEN MRet(rc.status, None, NoLoc)
        ELSE CHOOSE r \in {finish(rc, st) :
               st \in {matrix_data_corr_loop(
                         [theta |-> theta, theta_bounds |-> theta_bounds, Lij |-> Lij,
                          nlevels |-> nlevels, cat_kernel |-> cat_kernel,
                          theta_cat_features |-> mk.theta_cat_features],
                         0,
                         [r |-> rc.value,
                          r_cat |-> [k \in 1..Len(rc.value) |-> 0],
                          T |-> <<>>, theta_cat |-> <<>>])}} : TRUE
  IN CHOOSE r \in {run(rc) : rc \in {correlation_types(corr, theta_cont, d_cont)}} : TRUE

matrix_data_corr(corr, theta, theta_bounds, d, Lij, nlevels, cat_features, cat_kernel) ==
  CHOOSE r \in {matrix_data_corr_masked(corr, theta, theta_bounds, d, Lij, nlevels,
                                        cat_features, cat_kernel, mk) :
                  mk \in {matrix_data_corr_masks(theta, nlevels, cat_features,
                                                 cat_kernel)}} : TRUE

(***************************************************************************)
(* Specification of the distance engine: the caller's arrays and the       *)
(* variable types are drawn in Init, then one function is called.          *)
(* gower_componentwise_distances may be called a second time with the      *)
(* same arrays.  `pre` keeps the caller's arrays as they were passed and   *)
(* `first` the outcome of the first call.                                  *)
(***************************************************************************)
AllFloat(d) == [c \in 1..d |-> FLOAT]

InitDist ==
  /\ pc = "start"
  /\ \/ /\ X \in Mats(0..MaxRows, ColCounts, Vals)
        /\ y = None
     \/ /\ X \in Mats(0..MaxCross, ColCounts, Vals)
        /\ y \in {Some(m) : m \in Mats(0..MaxCross, ColCounts, Vals)}
  /\ xtypes = AllFloat(NCols(X))
  /\ par = NoLoc
  /\ loc = NoLoc
  /\ ret = Raise("none")
  /\ first = Raise("none")
  /\ pre = <<X, y>>

CallCrossDistances ==
  /\ pc = "start"
  /\ pc' = "cross_distances"
  /\ ret' = cross_distances(X, y)
  /\ UNCHANGED <<X, y, xtypes, par, loc, first, pre>>

CallDifferences ==
  /\ pc = "start"
  /\ y # None
  /\ pc' = "differences"
  /\ ret' = differences(X, y[1])
  /\ UNCHANGED <<X, y, xtypes, par, loc, first, pre>>

CallGower ==
  /\ pc = "start"
  /\ pc' = "gower"
  /\ \E g \in {gower_componentwise_distances(X, y, xtypes)} :
        /\ ret' = [status |-> g.status, value |-> g.value]
        /\ first' = [status |-> g.status, value |-> g.value]
        /\ y' = g.y_after
        /\ loc' = g.locals
  /\ UNCHANGED <<X, xtypes, par, pre>>

CallGowerAgain ==
  /\ pc = "gower"
  /\ pc' = "gower2"
  /\ \E g \in {gower_componentwise_distances(X, y, xtypes)} :
        /\ ret' = [status |-> g.status, value |-> g.value]
        /\ y' = g.y_after
        /\ loc' = g.locals
  /\ UNCHANGED <<X, xtypes, par, first, pre>>

NextDist == CallCrossDistances \/ CallDifferences \/ CallGower \/ CallGowerAgain

SpecDist == InitDist /\ [][NextDist]_vars

(***************************************************************************)
(* Specification of the Gower distance on mixed variable types: the same   *)
(* calls, on arrays whose columns follow the variable types.  A            *)
(* categorical column holds level codes, a continuous or ordinal column    *)
(* holds values that make the column maximum 0, 1 or 2.                    *)
(***************************************************************************)
GowerTypes == {<<FLOAT>>, <<ENUM(2)>>, <<FLOAT, ENUM(2)>>, <<ENUM(2), ORD>>,
               <<FLOAT, ORD>>, <<ENUM(2), ENUM(2)>>}

ColVals(xtyp) ==
  IF IsTuple(xtyp) THEN {Q(l) : l \in 0..(xtyp.n - 1)}
  ELSE IF xtyp = ORD THEN {Q(0), Q(1)}
  ELSE {Q(0), Q(1), Q(2)}

RowsTyped(xt) == {r \in [1..Len(xt) -> UNION {ColVals(xt[c]) : c \in 1..Len(xt)}] :
                     \A c \in 1..Len(xt) : r[c] \in ColVals(xt[c])}

MatsTyped(rows, xt) ==
  UNION {{[shape |-> <<n, Len(xt)>>, a |-> m] : m \in [1..n -> RowsTyped(xt)]} : n \in rows}

InitGower ==
  /\ pc = "start"
  /\ xtypes \in GowerTypes
  /\ \/ /\ X \in MatsTyped(0..MaxRows, xtypes)
        /\ y = None
     \/ /\ X \in MatsTyped(1..MaxGowerX, xtypes)
        /\ y \in {Some(m) : m \in MatsTyped(1..MaxGowerY, xtypes)}
  /\ par = NoLoc
  /\ loc = NoLoc
  /\ ret = Raise("none")
  /\ first = Raise("none")
  /\ pre = <<X, y>>

SpecGower == InitGower /\ [][NextDist]_vars

(***************************************************************************)
(* Specification of the mixed-variable correlation of a training set:      *)
(* the variable types, the training points X and the hyperparameters are   *)
(* drawn in Init, then the per-pair arrays are built one after the other,  *)
(* cross_distances(X), cross_levels(X, ij, xtypes),                        *)
(* componentwise_distance(D, corr, dim) and matrix_data_corr.  theta has   *)
(* compute_n_param(xtypes, cat_kernel) entries between the two bounds.     *)
(* Either theta ranges over all such vectors and X is one array per type   *)
(* list, or X ranges over all arrays of at most two columns and theta is   *)
(* one vector.  With reference points y the pairs are those of             *)
(* cross_distances(X, y) and the levels those of                           *)
(* cross_levels(X, ij, xtypes, y).                                         *)
(***************************************************************************)
MaxCorrRows == 3
MaxCorrX == 1
MaxCorrY == 2

CorrConfigs ==
  {<<xt, HOMO_GAUSSIAN>> : xt \in {<<FLOAT>>, <<ENUM(3)>>, <<FLOAT, ENUM(2)>>,
                                    <<ENUM(3), ENUM(2)>>, <<ENUM(2), ORD, ENUM(2)>>,
                                    <<ENUM(4)>>}}
  \cup {<<xt, FULL_GAUSSIAN>> : xt \in {<<ENUM(3)>>, <<FLOAT, ENUM(2)>>,
                                         <<ENUM(2), ENUM(2)>>}}

ThetaBoundsSet == {<<0, 2>>, <<1, 3>>}
CorrNames == {"abs_exp", "squar_exp"}

ThetaVecs(n, tb) == [1..n -> {Q(v) : v \in tb[1]..tb[2]}]
ThetaRamp(n, tb) == [p \in 1..n |-> Q(tb[1] + (p % (tb[2] - tb[1] + 1)))]

CorrColVals(xtyp) ==
  IF IsTuple(xtyp) THEN {Q(l) : l \in 0..(xtyp.n - 1)} ELSE {Q(0), Q(1)}

CorrMats(rows, xt) ==
  UNION {{[shape |-> <<n, Len(xt)>>, a |-> m] :
            m \in [1..n -> {r \in [1..Len(xt) -> {Q(0), Q(1), Q(2)}] :
                              \A c \in 1..Len(xt) : r[c] \in CorrColVals(xt[c])}]}
         : n \in rows}

\* one array per type list: row i holds, in column c, the value
\* i + (c - 1) * (i div 2) reduced to the values of the column
CorrMatOf(n, xt) ==
  [shape |-> <<n, Len(xt)>>,
   a |-> [i1 \in 1..n |-> [c \in 1..Len(xt) |->
            Q(((i1 - 1) + (c - 1) * ((i1 - 1) \div 2))
              % (IF IsTuple(xt[c]) THEN xt[c].n ELSE 3))]]]

Params(corr, theta, theta_bounds, cat_kernel) ==
  [corr |-> corr, theta |-> theta, theta_bounds |-> theta_bounds,
   cat_kernel |-> cat_kernel]

InitCorr ==
  /\ pc = "start"
  /\ \E cfg \in CorrConfigs, tb \in ThetaBoundsSet :
       /\ xtypes = cfg[1]
       /\ \/ /\ X = CorrMatOf(MaxCorrRows, cfg[1])
             /\ y = None
             /\ par \in {Params(corr, th, tb, cfg[2]) :
                           corr \in CorrNames,
                           th \in ThetaVecs(compute_n_param(cfg[1], cfg[2]), tb)}
          \/ /\ Len(cfg[1]) <= 2
             /\ X \in CorrMats(1..MaxCorrRows, cfg[1])
             /\ y = None
             /\ par = Params("abs_exp", ThetaRamp(compute_n_param(cfg[1], cfg[2]), tb),
                             tb, cfg[2])
          \/ /\ cfg[2] = FULL_GAUSSIAN
             /\ X \in CorrMats(1..MaxCorrX, cfg[1])
             /\ y \in {Some(m) : m \in CorrMats(1..MaxCorrY, cfg[1])}
             /\ par = Params("abs_exp", ThetaRamp(compute_n_param(cfg[1], cfg[2]), tb),
                             tb, cfg[2])
  /\ loc = NoLoc
  /\ ret = Raise("none")
  /\ first = Raise("none")
  /\ pre = <<X, y>>

TrainCrossDistances ==
  /\ pc = "start"
  /\ \E g \in {cross_distances(X, y)} :
       IF g.status = "ok"
         THEN /\ pc' = "distances"
              /\ loc' = [D |-> g.value[1], ij |-> g.value[2]]
              /\ ret' = ret
         ELSE /\ pc' = "failed"
              /\ loc' = loc
              /\ ret' = g
  /\ UNCHANGED <<X, y, xtypes, par, first, pre>>

TrainCrossLevels ==
  /\ pc = "distances"
  /\ \E g \in {cross_levels(X, loc.ij, xtypes, y)} :
       IF g.status = "ok"
         THEN /\ pc' = "levels"
              /\ loc' = [D |-> loc.D, ij |-> loc.ij,
                         Lij |-> g.value[1], n_levels |-> g.value[2]]
              /\ ret' = ret
         ELSE /\ pc' = "failed"
              /\ loc' = loc
              /\ ret' = g
  /\ UNCHANGED <<X, y, xtypes, par, first, pre>>

TrainComponentwiseDistance ==
  /\ pc = "levels"
  /\ \E g \in {componentwise_distance(loc.D, par.corr, NCols(X))} :
       IF g.status = "ok"
         THEN /\ pc' = "componentwise"
              /\ loc' = [D |-> loc.D, ij |-> loc.ij, Lij |-> loc.Lij,
                         n_levels |-> loc.n_levels, d |-> g.value]
              /\ ret' = ret
         ELSE /\ pc' = "failed"
              /\ loc' = loc
              /\ ret' = g
  /\ UNCHANGED <<X, y, xtypes, par, first, pre>>

TrainMatrixDataCorr ==
  /\ pc = "componentwise"
  /\ pc' = "corr"
  /\ \E cx \in {compute_X_cont(X, xtypes)} :
     \E g \in {matrix_data_corr(par.corr, par.theta, par.theta_bounds, loc.d, loc.Lij,
                                loc.n_levels, cx.value[2], par.cat_kernel)} :
       /\ ret' = [status |-> g.status, value |-> g.value]
       /\ loc' = [D |-> loc.D, ij |-> loc.ij, Lij |-> loc.Lij,
                  n_levels |-> loc.n_levels, d |-> loc.d, m |-> g.locals]
  /\ UNCHANGED <<X, y, xtypes, par, first, pre>>

NextCorr ==
  TrainCrossDistances \/ TrainCrossLevels \/ TrainComponentwiseDistance
    \/ TrainMatrixDataCorr

SpecCorr == InitCorr /\ [][NextCorr]_vars

(***************************************************************************)
(* Claims about the distance engine.                                       *)
(***************************************************************************)
\* (i, j) comes strictly before (k, l): i ascending, then j ascending
PairBefore(p, q) == p[1] < q[1] \/ (p[1] = q[1] /\ p[2] < q[2])

UpperPairs(n) == {<<i, j>> : i \in 0..(n - 1), j \in 0..(n - 1)} \cap
                 {p \in (0..(n - 1)) \X (0..(n - 1)) : p[1] < p[2]}

SelfCall == pc = "cross_distances" /\ y = None
CrossCall == pc = "cross_distances" /\ y # None

\* C1: cross_distances(X) with y omitted returns n(n-1)/2 rows; the pair list
\* is every (i, j) with 0 <= i < j < n, i ascending then j ascending, each
\* pair exactly once; row k of D is X[i] - X[j] for the pair (i, j) of row k.
C1_SelfPairsAndRows ==
  SelfCall =>
    LET n == NRows(X)
        D == ret.value[1]
        ij == ret.value[2]
        N == (n * (n - 1)) \div 2
    IN /\ ret.status = "ok"
       /\ D.shape = <<N, NCols(X)>> /\ Len(D.a) = N
       /\ ij.shape = <<N, 2>> /\ Len(ij.a) = N
       /\ \A k \in 1..N : <<ij.a[k][1], ij.a[k][2]>> \in UpperPairs(n)
       /\ \A k \in 1..(N - 1) : PairBefore(ij.a[k], ij.a[k + 1])
       /\ \A p \in UpperPairs(n) :
            Cardinality({k \in 1..N : ij.a[k] = p}) = 1
       /\ \A k \in 1..N : \A c \in 1..NCols(X) :
            D.a[k][c] = QSub(X.a[ij.a[k][1] + 1][c], X.a[ij.a[k][2] + 1][c])

\* the example of the specification: X = [[0,0],[1,0],[0,1]]
C1_Witness ==
  /\ SelfCall
  /\ X.a = <<<<Q(0), Q(0)>>, <<Q(1), Q(0)>>, <<Q(0), Q(1)>>>>
  /\ ret.value[2].a = <<<<0, 1>>, <<0, 2>>, <<1, 2>>>>
  /\ ret.value[1].a = <<<<Q(-1), Q(0)>>, <<Q(0), Q(-1)>>, <<Q(1), Q(-1)>>>>

\* C2: cross_distances(X, y) with y given (n and m rows, equal column
\* counts) returns n*m rows; the pair (i, j) is row i*m + j, so row k is
\* (k div m, k mod m); row k of D is X[k div m] - y[k mod m].
C2_CrossPairsAndRows ==
  (CrossCall /\ NCols(X) = NCols(y[1]) /\ NRows(X) >= 1 /\ NRows(y[1]) >= 1) =>
    LET n == NRows(X)
        m == NRows(y[1])
        D == ret.value[1]
        ij == ret.value[2]
    IN /\ ret.status = "ok"
       /\ D.shape = <<n * m, NCols(X)>> /\ Len(D.a) = n * m
       /\ ij.shape = <<n * m, 2>> /\ Len(ij.a) = n * m
       /\ \A i \in 0..(n - 1) : \A j \in 0..(m - 1) :
            /\ ij.a[i * m + j + 1] = <<i, j>>
            /\ \A c \in 1..NCols(X) :
                 D.a[i * m + j + 1][c] = QSub(X.a[i + 1][c], y[1].a[j + 1][c])

C2_Witness ==
  /\ CrossCall
  /\ ret.status = "ok"
  /\ NRows(X) = 2 /\ NRows(y[1]) = 2 /\ NCols(X) = 2
  /\ X.a[1] # X.a[2] /\ y[1].a[1] # y[1].a[2]
  /\ ret.value[2].a = <<<<0, 0>>, <<0, 1>>, <<1, 0>>, <<1, 1>>>>

\* C7: when the two point sets have different column counts,
\* cross_distances(X, y), differences(X, Y) and
\* gower_componentwise_distances(X, y) each raise an error and return nothing.
C7_MismatchFails ==
  (pc \in {"cross_distances", "differences", "gower"}
     /\ pre[2] # None /\ NCols(pre[1]) # NCols(pre[2][1])) =>
    /\ ret.status # "ok"
    /\ ret.value = None

C7_Witness ==
  /\ pc = "gower"
  /\ pre[2] # None /\ NCols(pre[1]) = 1 /\ NCols(pre[2][1]) = 2
  /\ NRows(pre[1]) >= 1 /\ NRows(pre[2][1]) >= 1
  /\ ret.status = "TypeError"

(***************************************************************************)
(* Claims about gower_componentwise_distances.                             *)
(***************************************************************************)
GowerDone == pc \in {"gower", "gower2"}

\* the reference set of the call: y when given, X otherwise
RefSet == IF pre[2] = None THEN pre[1] ELSE pre[2][1]

\* 0-based positions of the continuous columns, in order
ContCols == TrueIdx([c \in 1..Len(xtypes) |-> ~IsTuple(xtypes[c])], 1)

ColMaxIs(M, c, v) ==
  /\ \E i \in 1..NRows(M) : M.a[i][c] = v
  /\ \A i \in 1..NRows(M) : ~QLess(v, M.a[i][c])

ColMinIs(M, c, v) ==
  /\ \E i \in 1..NRows(M) : M.a[i][c] = v
  /\ \A i \in 1..NRows(M) : ~QLess(M.a[i][c], v)

\* the column has max = 0, or min = max
Degenerate(M, c) ==
  \/ ColMaxIs(M, c, Q(0))
  \/ \E v \in {M.a[i][c] : i \in 1..NRows(M)} : ColMaxIs(M, c, v) /\ ColMinIs(M, c, v)

\* the distance matrix of the last call
GowerD == IF pre[2] = None THEN ret.value[1] ELSE ret.value

\* C4 (as claimed): after gower_componentwise_distances returns, in self
\* mode and in cross mode, the caller's X and y hold the values they held
\* before the call, and a second call with the same arrays gives the same
\* result.
C4_CallerArraysUnchanged ==
  /\ GowerDone => (X = pre[1] /\ y = pre[2])
  /\ pc = "gower2" => ret = first

\* C5: in self mode, for every categorical column and every pair (i, j) of
\* the pair list, the entry is 0 when the two points have the same level and
\* 1 when they differ, in pair-list order.
C5_CategoricalIndicator ==
  (pc = "gower" /\ pre[2] = None /\ ret.status = "ok") =>
    LET D == ret.value[1]
        ij == ret.value[2]
        n == NRows(pre[1])
        N == (n * (n - 1)) \div 2
    IN /\ NRows(D) = N /\ Len(D.a) = N /\ Len(ij.a) = N
       /\ \A k \in 1..N : <<ij.a[k][1], ij.a[k][2]>> \in UpperPairs(n)
       /\ \A k \in 1..(N - 1) : PairBefore(ij.a[k], ij.a[k + 1])
       /\ \A k \in 1..N : \A c \in 1..Len(xtypes) :
            IsTuple(xtypes[c]) =>
              D.a[k][c] = IF pre[1].a[ij.a[k][1] + 1][c] = pre[1].a[ij.a[k][2] + 1][c]
                            THEN Q(0) ELSE Q(1)

\* one categorical column with levels a, b, a (codes 0, 1, 0)
C5_Witness ==
  /\ pc = "gower" /\ pre[2] = None /\ ret.status = "ok"
  /\ xtypes = <<ENUM(2)>>
  /\ pre[1].a = <<<<Q(0)>>, <<Q(1)>>, <<Q(0)>>>>
  /\ ret.value[2].a = <<<<0, 1>>, <<0, 2>>, <<1, 2>>>>
  /\ ret.value[1].a = <<<<Q(1)>>, <<Q(0)>>, <<Q(1)>>>>

\* C6: no division by zero: every scaled value, range and distance is a
\* finite number; a continuous column whose reference maximum is 0 is scaled
\* to 0, and a continuous column with max = 0 or min = max has every distance
\* entry 0, in self mode and in cross mode.
C6_NoDivisionByZero ==
  (pc = "gower" /\ ret.status = "ok") =>
    LET D == GowerD IN
    /\ \A k \in 1..NRows(D) : \A c \in 1..NCols(D) : QFinite(D.a[k][c])
    /\ \A t \in 1..Len(loc.num_ranges) :
         QFinite(loc.num_ranges[t]) /\ QFinite(loc.num_max[t])
    /\ \A i \in 1..NRows(loc.Z_num) : \A t \in 1..NCols(loc.Z_num) :
         QFinite(loc.Z_num.a[i][t])
    /\ NCols(loc.Z_num) = Len(ContCols)
    /\ \A t \in 1..Len(ContCols) :
         /\ ColMaxIs(RefSet, ContCols[t], Q(0)) =>
              \A i \in 1..NRows(loc.Z_num) : loc.Z_num.a[i][t] = Q(0)
         /\ Degenerate(RefSet, ContCols[t]) =>
              \A k \in 1..NRows(D) : D.a[k][ContCols[t]] = Q(0)

\* cross mode, a reference column that is constant and not 0, and a point of
\* X that differs from it
C6_Witness ==
  /\ pc = "gower" /\ ret.status = "ok" /\ pre[2] # None
  /\ \E t \in 1..Len(ContCols) :
       /\ ColMaxIs(RefSet, ContCols[t], Q(2)) /\ ColMinIs(RefSet, ContCols[t], Q(2))
       /\ pre[1].a[1][ContCols[t]] = Q(1)
       /\ GowerD.a[1][ContCols[t]] = Q(0)

(***************************************************************************)
(* Claims about the theta layout, the correlation composer and the         *)
(* per-pair pipeline.                                                      *)
(***************************************************************************)
CorrDone == pc = "corr"

\* the theta entries of one variable
SliceWidth(xtyp, ck) ==
  IF ~IsTuple(xtyp) THEN 1
  ELSE IF ck = FULL_GAUSSIAN THEN (xtyp.n * (xtyp.n + 1)) \div 2
  ELSE (xtyp.n * (xtyp.n - 1)) \div 2

\* the theta entries of the variables before variable v
RECURSIVE SliceStart(_, _, _)
SliceStart(xt, ck, v) ==
  IF v = 1 THEN 0 ELSE SliceStart(xt, ck, v - 1) + SliceWidth(xt[v - 1], ck)

\* the theta index p (from 1) lies in the slice of variable v
InSlice(xt, ck, v, p) ==
  p > SliceStart(xt, ck, v) /\ p <= SliceStart(xt, ck, v) + SliceWidth(xt[v], ck)

\* the rank of variable v among the categorical variables, and the
\* variable of factor f
FactorOf(xt, v) == Cardinality({u \in 1..v : IsTuple(xt[u])})
FactorCol(xt, f) == CHOOSE v \in 1..Len(xt) : IsTuple(xt[v]) /\ FactorOf(xt, v) = f

\* C8: matrix_data_corr gives every continuous variable one theta entry and
\* every factor of L levels L(L-1)/2 (homoscedastic) or L(L+1)/2 (full)
\* consecutive entries, in variable order; every theta index lies in
\* exactly one slice and the entries consumed number
\* compute_n_param(xtypes, cat_kernel).
C8_ThetaLayout ==
  CorrDone =>
    LET ck == par.cat_kernel
        n == Len(par.theta)
        m == loc.m
    IN /\ ret.status = "ok"
       /\ m.j = compute_n_param(xtypes, ck)
       /\ m.j = SliceStart(xtypes, ck, Len(xtypes) + 1)
       /\ m.j = n
       /\ \A p \in 1..n :
            /\ Cardinality({v \in 1..Len(xtypes) : InSlice(xtypes, ck, v, p)}) = 1
            /\ m.theta_cont_features[p]
                 = (\E v \in 1..Len(xtypes) :
                      ~IsTuple(xtypes[v]) /\ InSlice(xtypes, ck, v, p))
            /\ \A v \in 1..Len(xtypes) :
                 IsTuple(xtypes[v]) =>
                   m.theta_cat_features[p][FactorOf(xtypes, v)]
                     = InSlice(xtypes, ck, v, p)

C8_Witness ==
  /\ CorrDone
  /\ ret.status = "ok"
  /\ xtypes = <<ENUM(2), ORD, ENUM(2)>>
  /\ loc.m.theta_cont_features = <<FALSE, TRUE, FALSE>>
  /\ loc.m.theta_cat_features = <<(<<TRUE, FALSE>>), (<<FALSE, FALSE>>), (<<FALSE, TRUE>>)>>

\* the first (side 1) or second (side 2) point of pair k: a row of X, or
\* of the reference points y as second point
PointOf(k, side) ==
  IF side = 2 /\ y # None THEN y[1].a[loc.ij.a[k][2] + 1]
  ELSE X.a[loc.ij.a[k][side] + 1]

\* the level of factor f (from 1) of the first (side 1) or second (side 2)
\* point of pair k
LevelOf(k, side, f) == IntOf(PointOf(k, side)[FactorCol(xtypes, f)])

\* the block of factor f computed from the factor's own theta slice only
FreshBlock(f) ==
  LET v == FactorCol(xtypes, f)
      w == SliceWidth(xtypes[v], par.cat_kernel)
      s == SliceStart(xtypes, par.cat_kernel, v)
  IN matrix_data_corr_block([t \in 1..w |-> par.theta[s + t]],
                            [t \in 1..w |-> <<TRUE>>], 0, <<xtypes[v].n>>,
                            par.theta_bounds, par.cat_kernel)

\* the term of factor f for pair k
FactorTerm(k, f) ==
  LET a == LevelOf(k, 1, f)
      b == LevelOf(k, 2, f)
      v == FactorCol(xtypes, f)
      nl == xtypes[v].n
      s == SliceStart(xtypes, par.cat_kernel, v) + ((nl * (nl - 1)) \div 2)
  IN IF a = b THEN Scale
     ELSE IF par.cat_kernel = FULL_GAUSSIAN
       THEN MulFix(ExpFix(-ToFix(QAdd(par.theta[s + a + 1], par.theta[s + b + 1]))),
                   loc.m.T[f][a + 1][b + 1])
     ELSE loc.m.T[f][a + 1][b + 1]

RECURSIVE ProductOfTerms(_, _)
ProductOfTerms(k, f) ==
  IF f = 0 THEN loc.m.r_cont[k] ELSE MulFix(ProductOfTerms(k, f - 1), FactorTerm(k, f))

\* C9: for every pair k, r[k] is r_cont[k] multiplied, factor by factor, by
\* 1 when the two levels are equal and otherwise by the (level_i, level_j)
\* entry of the factor's block T (times the two decay factors in the full
\* variant); the block of a factor depends on the factor's theta slice only.
C9_ProductOfFactorTerms ==
  CorrDone =>
    /\ ret.status = "ok"
    /\ Len(ret.value) = NRows(loc.ij)
    /\ Len(loc.m.T) = Len(loc.n_levels)
    /\ \A f \in 1..Len(loc.n_levels) : loc.m.T[f] = FreshBlock(f).T
    /\ \A k \in 1..NRows(loc.ij) : ret.value[k] = ProductOfTerms(k, Len(loc.n_levels))

C9_Witness ==
  /\ CorrDone
  /\ ret.status = "ok"
  /\ Len(loc.n_levels) = 2
  /\ \E k \in 1..NRows(loc.ij) :
       /\ LevelOf(k, 1, 1) # LevelOf(k, 2, 1)
       /\ LevelOf(k, 1, 2) = LevelOf(k, 2, 2)
       /\ ret.value[k] > 0
       /\ ret.value[k] < loc.m.r_cont[k]
  /\ \E k \in 1..NRows(loc.ij) :
       /\ LevelOf(k, 1, 1) # LevelOf(k, 2, 1)
       /\ LevelOf(k, 1, 2) # LevelOf(k, 2, 2)
       /\ loc.m.T[1] # loc.m.T[2]
       /\ ret.value[k] > 0

Symmetric(T) == \A a \in 1..Len(T), b \in 1..Len(T) : T[a][b] = T[b][a]
ExpMinus(n) == ExpFix(-(n * Scale))

\* C10 as the specification states it: every block T is symmetric with
\* unit diagonal and entries between exp(-bound) and 1
C10_UnitDiagonal ==
  CorrDone =>
    \A f \in 1..Len(loc.m.T) :
      LET T == loc.m.T[f] IN
      /\ Symmetric(T)
      /\ \A a \in 1..Len(T) : T[a][a] = Scale
      /\ \A a \in 1..Len(T), b \in 1..Len(T) :
           T[a][b] >= ExpMinus(par.theta_bounds[2]) /\ T[a][b] <= Scale

\* what the code builds: every block T is symmetric, every diagonal entry
\* is exp(-lower) and every entry lies between exp(-bound) * exp(-lower)
\* and exp(-lower)
BlockScaledByLower ==
  CorrDone =>
    \A f \in 1..Len(loc.m.T) :
      LET T == loc.m.T[f]
          el == ExpMinus(par.theta_bounds[1])
          eb == ExpMinus(par.theta_bounds[2])
      IN /\ Symmetric(T)
         /\ Len(T) = loc.n_levels[f]
         /\ \A a \in 1..Len(T) : T[a][a] = el
         /\ \A a \in 1..Len(T), b \in 1..Len(T) :
              T[a][b] >= MulFix(eb, el) /\ T[a][b] <= el

\* with lower = 0 the blocks are as C10 states them
UnitDiagonalAtLowerZero ==
  (CorrDone /\ par.theta_bounds[1] = 0) =>
    \A f \in 1..Len(loc.m.T) :
      LET T == loc.m.T[f] IN
      /\ \A a \in 1..Len(T) : T[a][a] = Scale
      /\ \A a \in 1..Len(T), b \in 1..Len(T) :
           T[a][b] >= ExpMinus(par.theta_bounds[2]) /\ T[a][b] <= Scale

\* the pairs, and the stages that have run
PairCount ==
  IF y = None THEN (NRows(X) * (NRows(X) - 1)) \div 2 ELSE NRows(X) * NRows(y[1])
StageDone(s) ==
  CASE s = "distances" -> pc \in {"distances", "levels", "componentwise", "corr"}
    [] s = "levels" -> pc \in {"levels", "componentwise", "corr"}
    [] s = "componentwise" -> pc \in {"componentwise", "corr"}
    [] s = "corr" -> pc = "corr"

\* matrix_data_corr on the rows of pair k alone
RowCorr(k) ==
  matrix_data_corr(par.corr, par.theta, par.theta_bounds,
                   [shape |-> <<1, NCols(loc.d)>>, a |-> <<loc.d.a[k]>>],
                   [f \in 1..Len(loc.Lij) |-> <<loc.Lij[f][k]>>],
                   loc.n_levels, [c \in 1..Len(xtypes) |-> IsTuple(xtypes[c])],
                   par.cat_kernel)

\* C3: every per-pair array has one row per pair of ij, and its row k is
\* computed from the two points of pair ij[k] alone: D[k] is their
\* difference, Lij[f][k] their levels in factor f, d[k] the preprocessed
\* D[k], and r[k] the correlation of row k taken alone.
C3_RowAlignment ==
  /\ StageDone("distances") =>
       /\ NRows(loc.ij) = PairCount
       /\ NRows(loc.D) = PairCount
       /\ \A k \in 1..PairCount : loc.D.a[k] = RowSub(PointOf(k, 1), PointOf(k, 2))
  /\ StageDone("levels") =>
       /\ Len(loc.Lij) = Cardinality({c \in 1..Len(xtypes) : IsTuple(xtypes[c])})
       /\ \A f \in 1..Len(loc.Lij) :
            /\ Len(loc.Lij[f]) = PairCount
            /\ \A k \in 1..PairCount :
                 loc.Lij[f][k] = <<PointOf(k, 1)[FactorCol(xtypes, f)],
                                   PointOf(k, 2)[FactorCol(xtypes, f)]>>
  /\ StageDone("componentwise") =>
       /\ NRows(loc.d) = PairCount
       /\ \A k \in 1..PairCount : \A c \in 1..NCols(X) :
            LET diff == QSub(PointOf(k, 1)[c], PointOf(k, 2)[c])
            IN loc.d.a[k][c] = IF par.corr = "squar_exp" THEN QMul(diff, diff)
                               ELSE QAbs(diff)
  /\ StageDone("corr") =>
       /\ ret.status = "ok"
       /\ Len(ret.value) = PairCount
       /\ \A k \in 1..PairCount : ret.value[k] = RowCorr(k).value[1]

C3_Witness ==
  /\ pc = "corr"
  /\ y = None
  /\ ret.status = "ok"
  /\ PairCount = 3
  /\ \E c \in 1..Len(xtypes) : IsTuple(xtypes[c])
  /\ \E c \in 1..Len(xtypes) : ~IsTuple(xtypes[c])
  /\ \A k \in 1..3, l \in 1..3 :
       k # l => (loc.D.a[k] # loc.D.a[l] /\ ret.value[k] # ret.value[l])

C3_WitnessCross ==
  /\ pc = "corr"
  /\ y # None
  /\ ret.status = "ok"
  /\ PairCount = 2
  /\ Len(loc.Lij) = 2
  /\ loc.Lij[1][1] # loc.Lij[1][2]
  /\ ret.value[1] # ret.value[2]

(***************************************************************************)
(* The correlation kernels with their derivative modes.                    *)
(*                                                                         *)
(* A kernel returns the column r, the pair (r, dr) or the array d2r; the   *)
(* returned value is a record [kind, r, dr, d2r] whose unused fields are   *)
(* None.  r is the sequence of the entries of the column, dr a sequence of *)
(* rows, d2r an array [shape |-> <<n, c, c>>, a |-> <<matrix, ...>>].      *)
(* grad_ind and hess_ind are None or Some(index), derivative_params and    *)
(* hess_params are None or Some([dd |-> array, dx |-> array]).  The chunk  *)
(* size of the loops is the last argument nb of every kernel.              *)
(***************************************************************************)
KVal(r) == [kind |-> "r", r |-> r, dr |-> None, d2r |-> None]
KPair(r, dr) == [kind |-> "r_dr", r |-> r, dr |-> Some(dr), d2r |-> None]
KHess(d2r) == [kind |-> "d2r", r |-> None, dr |-> None, d2r |-> Some(d2r)]

QNeg(a) == <<-a[1], a[2]>>

\* a fixed-point value times a float
MulQ(v, q) == Round(v * q[1], q[2])

\* a / b for values of any size and sign (b # 0), digit pairs at a time
DivWide(a, b) ==
  LET m == IAbs(a)
      n == IAbs(b)
      r0 == m % n
      r1 == (r0 * 100) % n
  IN ISign(a) * ISign(b) *
       ((m \div n) * Scale + ((r0 * 100) \div n) * 100 + Round(r1 * 100, n))

\* np.sqrt(3.0) and np.sqrt(5.0)
Sqrt3 == 17321
Sqrt5 == 22361

\* a[:, ind] of an array with n columns: ind counts from the end when negative
ColOk(ind, n) == ind >= -n /\ ind < n
Col(ind, n) == (ind % n) + 1

\* the bounds of chunk i, as numpy clips them
ChunkLo(i, nb) == i * nb
ChunkHi(i, nb, n) == IF (i + 1) * nb < n THEN (i + 1) * nb ELSE n
\* InChunk with the upper bound of the slice included
InChunk_inclusive(k, i, nb, n) == k - 1 >= ChunkLo(i, nb) /\ k - 1 <= ChunkHi(i, nb, n)

InChunk(k, i, nb, n) == k - 1 >= ChunkLo(i, nb) /\ k - 1 < ChunkHi(i, nb, n)

(***************************************************************************)
(* abs_exp(theta, d, grad_ind, hess_ind, derivative_params) and            *)
(* squar_exp(theta, d, grad_ind, hess_ind, derivative_params, hess_params) *)
(***************************************************************************)
\* exp_kernel_ind_loop without the minus sign
RECURSIVE exp_kernel_ind_loop_unsigned(_, _, _, _, _)
exp_kernel_ind_loop_unsigned(d, ind, i, r, nb) ==
  IF ~(i * nb <= NRows(d)) THEN r
  ELSE exp_kernel_ind_loop_unsigned(d, ind, i + 1,
         [k \in 1..NRows(d) |->
            IF InChunk(k, i, nb, NRows(d))
              THEN MulQ(r[k], d.a[k][Col(ind, NCols(d))])
              ELSE r[k]], nb)

\* the loops of the gradient and of the Hessian: r = -d[:, ind] * r
RECURSIVE exp_kernel_ind_loop(_, _, _, _, _)
exp_kernel_ind_loop(d, ind, i, r, nb) ==
  IF ~(i * nb <= NRows(d)) THEN r
  ELSE exp_kernel_ind_loop(d, ind, i + 1,
         [k \in 1..NRows(d) |->
            IF InChunk(k, i, nb, NRows(d))
              THEN MulQ(r[k], QNeg(d.a[k][Col(ind, NCols(d))]))
              ELSE r[k]], nb)

\* the three loops of abs_exp and of squar_exp
exp_kernel_loops(theta, d, grad_ind, hess_ind, nb) ==
  LET r0 == exp_kernel_loop(theta, d, 0, [k \in 1..NRows(d) |-> 0], nb)
      r1 == IF grad_ind # None THEN exp_kernel_ind_loop(d, grad_ind[1], 0, r0, nb)
            ELSE r0
  IN IF hess_ind # None THEN exp_kernel_ind_loop(d, hess_ind[1], 0, r1, nb)
     ELSE r1

\* the failures of the loops: theta.reshape(1, n_components) and d[:, ind]
exp_kernel_error(theta, d, grad_ind, hess_ind) ==
  IF Len(theta) # NCols(d) THEN "ValueError"
  ELSE IF grad_ind # None /\ ~ColOk(grad_ind[1], NCols(d)) THEN "IndexError"
  ELSE IF hess_ind # None /\ ~ColOk(hess_ind[1], NCols(d)) THEN "IndexError"
  ELSE "ok"

\* dr = -np.einsum("i,ij->ij", r[0], dd)
exp_kernel_dr(r, dd) ==
  [k \in 1..Len(r) |-> [j \in 1..NCols(dd) |-> -MulQ(r[k], dd.a[k][j])]]

\* lines 595-601, r being the column after the loops
abs_exp_return(r, derivative_params) ==
  IF derivative_params # None
    THEN LET dd == derivative_params[1].dd
         IN IF NRows(dd) # Len(r) THEN Raise("ValueError")
            ELSE Ok(KPair(r, exp_kernel_dr(r, dd)))
    ELSE Ok(KVal(r))

abs_exp_nb(theta, d, grad_ind, hess_ind, derivative_params, nb) ==
  IF exp_kernel_error(theta, d, grad_ind, hess_ind) # "ok"
    THEN Raise(exp_kernel_error(theta, d, grad_ind, hess_ind))
  ELSE CHOOSE res \in {abs_exp_return(r, derivative_params) :
                         r \in {exp_kernel_loops(theta, d, grad_ind, hess_ind, nb)}} : TRUE

\* d2r[k, i, j] of lines 678-684; rT is r after `r = r.T`, of shape (1, N),
\* so that r[k] is a row of N values, which fits one cell only when N = 1
squar_exp_d2r_cell(theta, dd, rT, k, i, j) ==
  IF i = j
    THEN -MulQ(rT[k][1], QSub(QMul(Q(2), theta[i]), QMul(dd.a[k][i], dd.a[k][i])))
    ELSE MulQ(rT[k][1], QMul(dd.a[k][i], dd.a[k][j]))

\* lines 676-686: the second derivatives
squar_exp_hess(theta, n_components, rT, hess_params) ==
  LET dd == hess_params[1].dd
      n == Len(rT)
  IN IF n_components = 0 THEN Ok(KHess([shape |-> <<n, 0, 0>>, a |-> [k \in 1..n |-> <<>>]]))
     ELSE IF NRows(dd) < n \/ NCols(dd) < n_components THEN Raise("IndexError")
     ELSE IF Len(rT[1]) # 1
       THEN Raise("ValueError: setting an array element with a sequence.")
     ELSE Ok(KHess([shape |-> <<n, n_components, n_components>>,
                    a |-> [k \in 1..n |-> [i \in 1..n_components |->
                            [j \in 1..n_components |->
                               squar_exp_d2r_cell(theta, dd, rT, k, i, j)]]]]))

\* lines 668-688, r being the column after the loops
squar_exp_return(theta, d, r, derivative_params, hess_params) ==
  IF derivative_params # None \/ hess_params # None
    THEN IF derivative_params = None
           THEN Raise("TypeError: 'NoneType' object is not subscriptable")
         ELSE LET dd == derivative_params[1].dd
              IN IF NRows(dd) # Len(r) THEN Raise("ValueError")
                 ELSE IF hess_params = None THEN Ok(KPair(r, exp_kernel_dr(r, dd)))
                 \* r = r.T: one row holding the N values
                 ELSE squar_exp_hess(theta, NCols(d), <<r>>, hess_params)
    ELSE Ok(KVal(r))

squar_exp_nb(theta, d, grad_ind, hess_ind, derivative_params, hess_params, nb) ==
  IF exp_kernel_error(theta, d, grad_ind, hess_ind) # "ok"
    THEN Raise(exp_kernel_error(theta, d, grad_ind, hess_ind))
  ELSE CHOOSE res \in {squar_exp_return(theta, d, r, derivative_params, hess_params) :
                         r \in {exp_kernel_loops(theta, d, grad_ind, hess_ind, nb)}} : TRUE

(***************************************************************************)
(* matern52(theta, d, grad_ind, hess_ind, derivative_params)               *)
(***************************************************************************)
\* matern52_factor without its leading 1
matern52_factor_without_one(ll) == MulWide(Sqrt5, ll) + Round(5 * MulWide(ll, ll), 3)

\* 1 + sqrt(5) * ll + 5/3 * ll^2 for one entry ll of theta * d
matern52_factor(ll) == Scale + MulWide(Sqrt5, ll) + Round(5 * MulWide(ll, ll), 3)

RECURSIVE matern52_prod(_, _, _, _)
matern52_prod(theta, row, c, skip) ==
  IF c > Len(row) THEN Scale
  ELSE IF c = skip THEN matern52_prod(theta, row, c + 1, skip)
  ELSE MulWide(matern52_factor(ToFix(QMul(theta[c], row[c]))),
               matern52_prod(theta, row, c + 1, skip))

\* one row of the right-hand side of lines 725-727
matern52_row(theta, row) ==
  MulWide(matern52_prod(theta, row, 1, 0),
          ExpFix(-MulWide(Sqrt5, ToFix(SumProd(theta, row, 1)))))

RECURSIVE matern52_loop(_, _, _, _, _)
matern52_loop(theta, d, i, r, nb) ==
  IF ~(i * nb <= NRows(d)) THEN r
  ELSE matern52_loop(theta, d, i + 1,
         [k \in 1..NRows(d) |->
            IF InChunk(k, i, nb, NRows(d)) THEN matern52_row(theta, d.a[k])
            ELSE r[k]], nb)

\* fact_1, fact_2 and fact_3 for the entry d_g of a row and its theta_g
matern52_fact_1(theta_g, d_g) ==
  MulQ(Sqrt5, d_g) + ToFix(QMul(<<10, 3>>, QMul(theta_g, QMul(d_g, d_g))))

matern52_fact_2(theta_g, d_g) ==
  Scale + MulQ(Sqrt5, QMul(theta_g, d_g))
    + ToFix(QMul(<<5, 3>>, QMul(QMul(theta_g, theta_g), QMul(d_g, d_g))))

matern52_fact_3(d_g) == MulQ(Sqrt5, d_g)

\* fact_1 / fact_2 - fact_3
matern52_slope(theta_g, d_g) ==
  DivWide(matern52_fact_1(theta_g, d_g), matern52_fact_2(theta_g, d_g))
    - matern52_fact_3(d_g)

\* (fact_4 - fact_1 ** 2) / fact_2 ** 2
matern52_curve(theta_g, d_g) ==
  LET fact_1 == matern52_fact_1(theta_g, d_g)
      fact_2 == matern52_fact_2(theta_g, d_g)
      fact_4 == MulWide(ToFix(QMul(<<10, 3>>, QMul(d_g, d_g))), fact_2)
  IN DivWide(fact_4 - MulWide(fact_1, fact_1), MulWide(fact_2, fact_2))

\* the loop of lines 735-757
RECURSIVE matern52_grad_loop(_, _, _, _, _, _)
matern52_grad_loop(theta, d, grad_ind, i, r, nb) ==
  IF ~(i * nb <= NRows(d)) THEN r
  ELSE LET g == Col(grad_ind, NCols(d))
       IN matern52_grad_loop(theta, d, grad_ind, i + 1,
            [k \in 1..NRows(d) |->
               IF InChunk(k, i, nb, NRows(d))
                 THEN MulWide(matern52_slope(theta[g], d.a[k][g]), r[k])
                 ELSE r[k]], nb)

\* the loop of lines 761-797; same is the test hess_ind == grad_ind
RECURSIVE matern52_hess_loop(_, _, _, _, _, _, _, _)
matern52_hess_loop(theta, d, hess_ind, same, M52, i, r, nb) ==
  IF ~(i * nb <= NRows(d)) THEN r
  ELSE LET h == Col(hess_ind, NCols(d))
       IN matern52_hess_loop(theta, d, hess_ind, same, M52, i + 1,
            [k \in 1..NRows(d) |->
               IF InChunk(k, i, nb, NRows(d))
                 THEN MulWide(matern52_slope(theta[h], d.a[k][h]), r[k])
                      + (IF same
                           THEN MulWide(matern52_curve(theta[h], d.a[k][h]), M52[k])
                           ELSE 0)
                 ELSE r[k]], nb)

\* the loops after the first, M52 being the copy of r that line 731 takes
matern52_modes(theta, d, grad_ind, hess_ind, M52, nb) ==
  LET r1 == IF grad_ind # None
              THEN matern52_grad_loop(theta, d, grad_ind[1], 0, M52, nb)
              ELSE M52
  IN IF hess_ind # None
       THEN matern52_hess_loop(theta, d, hess_ind[1], hess_ind = grad_ind, M52, 0, r1, nb)
       ELSE r1

\* the sign of an entry of dx as lines 812-816 set it
DerSign(q) == IF QLess(q, Q(0)) THEN Q(-1) ELSE Q(1)

\* dB[j][k] of lines 818-832 for the row dxj of dx
matern52_dB(theta, dxj, k) ==
  LET absj == [l \in 1..Len(dxj) |-> QAbs(dxj[l])]
  IN MulWide(MulQ(Sqrt5, QMul(theta[k], DerSign(dxj[k])))
               + ToFix(QMul(<<10, 3>>,
                   QMul(DerSign(dxj[k]), QMul(absj[k], QMul(theta[k], theta[k]))))),
             matern52_prod(theta, absj, 1, k))

\* dr[j][k] of lines 834-839
matern52_dr(theta, dx, r, j, k) ==
  LET absj == [l \in 1..NCols(dx) |-> QAbs(dx.a[j][l])]
      A == ExpFix(-MulWide(Sqrt5, ToFix(SumProd(theta, absj, 1))))
  IN -MulWide(MulQ(Sqrt5, QMul(theta[k], DerSign(dx.a[j][k]))), r[j])
       + MulWide(A, matern52_dB(theta, dx.a[j], k))

\* lines 799-843, r being the column after the loops
matern52_return(theta, d, r, derivative_params) ==
  IF derivative_params # None
    THEN LET dx == derivative_params[1].dx
         IN IF NCols(dx) # Len(theta) THEN Raise("ValueError")
            ELSE IF NRows(dx) > Len(r) \/ NCols(dx) < NCols(d) THEN Raise("IndexError")
            ELSE Ok(KPair(r, [j \in 1..NRows(dx) |-> [k \in 1..NCols(dx) |->
                                IF k <= NCols(d) THEN matern52_dr(theta, dx, r, j, k)
                                ELSE 0]]))
    ELSE Ok(KVal(r))

\* theta_r is bound by line 734 only, under `if grad_ind is not None`
matern52_error(theta, d, grad_ind, hess_ind) ==
  IF Len(theta) # NCols(d) THEN "ValueError"
  ELSE IF grad_ind # None /\ ~ColOk(grad_ind[1], NCols(d)) THEN "IndexError"
  ELSE IF hess_ind # None /\ ~ColOk(hess_ind[1], NCols(d)) THEN "IndexError"
  ELSE IF hess_ind # None /\ grad_ind = None THEN "UnboundLocalError"
  ELSE "ok"

matern52_nb(theta, d, grad_ind, hess_ind, derivative_params, nb) ==
  IF matern52_error(theta, d, grad_ind, hess_ind) # "ok"
    THEN Raise(matern52_error(theta, d, grad_ind, hess_ind))
  ELSE CHOOSE res \in
         {matern52_return(theta, d, r, derivative_params) :
            r \in {matern52_modes(theta, d, grad_ind, hess_ind, M52, nb) :
                     M52 \in {matern52_loop(theta, d, 0, [k \in 1..NRows(d) |-> 0], nb)}}} : TRUE

(***************************************************************************)
(* matern32(theta, d, grad_ind, hess_ind, derivative_params, hess_params)  *)
(***************************************************************************)
\* 1 + sqrt(3) * ll for one entry ll of theta * d
matern32_factor(ll) == Scale + MulWide(Sqrt3, ll)

RECURSIVE matern32_prod(_, _, _, _)
matern32_prod(theta, row, c, skip) ==
  IF c > Len(row) THEN Scale
  ELSE IF c = skip THEN matern32_prod(theta, row, c + 1, skip)
  ELSE MulWide(matern32_factor(ToFix(QMul(theta[c], row[c]))),
               matern32_prod(theta, row, c + 1, skip))

\* matern32_row with the sign of the exponent lost
matern32_row_growing(theta, row) ==
  MulWide(matern32_prod(theta, row, 1, 0),
          ExpFix(MulWide(Sqrt3, ToFix(SumProd(theta, row, 1)))))

\* one row of the right-hand side of lines 883-885
matern32_row(theta, row) ==
  MulWide(matern32_prod(theta, row, 1, 0),
          ExpFix(-MulWide(Sqrt3, ToFix(SumProd(theta, row, 1)))))

RECURSIVE matern32_loop(_, _, _, _, _)
matern32_loop(theta, d, i, r, nb) ==
  IF ~(i * nb <= NRows(d)) THEN r
  ELSE matern32_loop(theta, d, i + 1,
         [k \in 1..NRows(d) |->
            IF InChunk(k, i, nb, NRows(d)) THEN matern32_row(theta, d.a[k])
            ELSE r[k]], nb)

\* 1 / (1 + sqrt(3) * theta_g * d_g) - 1: fact_1 of the gradient, fact_2 of the
\* Hessian
matern32_fact(theta_g, d_g) ==
  DivWide(Scale, Scale + MulQ(Sqrt3, QMul(theta_g, d_g))) - Scale

\* fact_3 = 3 * d_h^2 / (1 + sqrt(3) * theta_h * d_h)^2
matern32_fact_3(theta_h, d_h) ==
  LET den == Scale + MulQ(Sqrt3, QMul(theta_h, d_h))
  IN DivWide(ToFix(QMul(Q(3), QMul(d_h, d_h))), MulWide(den, den))

\* the loop of lines 891-909: r = fact_1 * r * sqrt(3) * d[:, grad_ind]
RECURSIVE matern32_grad_loop(_, _, _, _, _, _)
matern32_grad_loop(theta, d, grad_ind, i, r, nb) ==
  IF ~(i * nb <= NRows(d)) THEN r
  ELSE LET g == Col(grad_ind, NCols(d))
       IN matern32_grad_loop(theta, d, grad_ind, i + 1,
            [k \in 1..NRows(d) |->
               IF InChunk(k, i, nb, NRows(d))
                 THEN MulQ(MulWide(MulWide(matern32_fact(theta[g], d.a[k][g]), r[k]),
                                   Sqrt3), d.a[k][g])
                 ELSE r[k]], nb)

\* the loop of lines 913-944; same is the test grad_ind == hess_ind
RECURSIVE matern32_hess_loop(_, _, _, _, _, _, _, _)
matern32_hess_loop(theta, d, hess_ind, same, M32, i, r, nb) ==
  IF ~(i * nb <= NRows(d)) THEN r
  ELSE LET h == Col(hess_ind, NCols(d))
       IN matern32_hess_loop(theta, d, hess_ind, same, M32, i + 1,
            [k \in 1..NRows(d) |->
               IF InChunk(k, i, nb, NRows(d))
                 THEN MulQ(MulWide(MulWide(r[k], matern32_fact(theta[h], d.a[k][h])),
                                   Sqrt3), d.a[k][h])
                      - (IF same
                           THEN MulWide(matern32_fact_3(theta[h], d.a[k][h]), M32[k])
                           ELSE 0)
                 ELSE r[k]], nb)

\* the loops after the first, M32 being the copy of r that line 889 takes
matern32_modes(theta, d, grad_ind, hess_ind, M32, nb) ==
  LET r1 == IF grad_ind # None
              THEN matern32_grad_loop(theta, d, grad_ind[1], 0, M32, nb)
              ELSE M32
  IN IF hess_ind # None
       THEN matern32_hess_loop(theta, d, hess_ind[1], grad_ind = hess_ind, M32, 0, r1, nb)
       ELSE r1

\* dB[j][k] of lines 962-969 for the row dxj of dx
matern32_dB(theta, dxj, k) ==
  MulWide(MulQ(Sqrt3, QMul(theta[k], DerSign(dxj[k]))),
          matern32_prod(theta, [l \in 1..Len(dxj) |-> QAbs(dxj[l])], 1, k))

\* dr[j][k] of lines 971-975
matern32_dr(theta, dx, r, j, k) ==
  LET absj == [l \in 1..NCols(dx) |-> QAbs(dx.a[j][l])]
      A == ExpFix(-MulWide(Sqrt3, ToFix(SumProd(theta, absj, 1))))
  IN -MulWide(MulQ(Sqrt3, QMul(theta[k], DerSign(dx.a[j][k]))), r[j])
       + MulWide(A, matern32_dB(theta, dx.a[j], k))

\* d2r[j, i, k] of lines 981-989, dr being the array of the first derivatives
matern32_d2r_cell(theta, dx, r, dr, j, i, k) ==
  LET lead == MulWide(MulQ(Sqrt3, QMul(theta[i], DerSign(dx.a[j][i]))),
                      matern32_fact(theta[i], QAbs(dx.a[j][i])))
      den == Scale + MulQ(Sqrt3, QMul(QAbs(dx.a[j][i]), theta[i]))
  IN MulWide(lead, dr[j][k])
       + (IF i = k
            THEN -MulWide(DivWide(ToFix(QMul(Q(3), QMul(theta[i], theta[i]))),
                                  MulWide(den, den)), r[j])
            ELSE 0)

\* lines 976-991, dr being the array of the first derivatives
matern32_second(theta, dx, r, dr, hess_params) ==
  IF hess_params = None THEN Ok(KPair(r, dr))
  ELSE Ok(KHess([shape |-> <<NRows(dx), NCols(dx), NCols(dx)>>,
                 a |-> [j \in 1..NRows(dx) |-> [i \in 1..NCols(dx) |->
                         [k \in 1..NCols(dx) |->
                            matern32_d2r_cell(theta, dx, r, dr, j, i, k)]]]]))

\* lines 946-994, r being the column after the loops
matern32_return(theta, d, r, derivative_params, hess_params) ==
  IF derivative_params # None \/ hess_params # None
    THEN IF derivative_params = None
           THEN Raise("TypeError: 'NoneType' object is not subscriptable")
         ELSE LET dx == derivative_params[1].dx
              IN IF NCols(dx) # Len(theta) THEN Raise("ValueError")
                 ELSE IF NRows(dx) > Len(r) THEN Raise("IndexError")
                 ELSE CHOOSE res \in
                        {matern32_second(theta, dx, r, dr, hess_params) :
                           dr \in {[j \in 1..NRows(dx) |-> [k \in 1..NCols(dx) |->
                                      matern32_dr(theta, dx, r, j, k)]]}} : TRUE
    ELSE Ok(KVal(r))

matern32_error(theta, d, grad_ind, hess_ind) ==
  IF Len(theta) # NCols(d) THEN "ValueError"
  ELSE IF grad_ind # None /\ ~ColOk(grad_ind[1], NCols(d)) THEN "IndexError"
  ELSE IF hess_ind # None /\ ~ColOk(hess_ind[1], NCols(d)) THEN "IndexError"
  ELSE "ok"

matern32_nb(theta, d, grad_ind, hess_ind, derivative_params, hess_params, nb) ==
  IF matern32_error(theta, d, grad_ind, hess_ind) # "ok"
    THEN Raise(matern32_error(theta, d, grad_ind, hess_ind))
  ELSE CHOOSE res \in
         {matern32_return(theta, d, r, derivative_params, hess_params) :
            r \in {matern32_modes(theta, d, grad_ind, hess_ind, M32, nb) :
                     M32 \in {matern32_loop(theta, d, 0, [k \in 1..NRows(d) |-> 0], nb)}}} : TRUE

(***************************************************************************)
(* act_exp(theta, d, grad_ind, hess_ind, d_x, derivative_params)           *)
(***************************************************************************)
\* act_exp_dot on A = np.reshape(theta, (n_components, n_small_components)),
\* the reshape without the transposition
RECURSIVE act_exp_dot_untransposed(_, _, _, _, _)
act_exp_dot_untransposed(theta, row, n_components, s, j) ==
  IF j > n_components THEN Q(0)
  ELSE QAdd(QMul(row[j], theta[(j - 1) * (Len(theta) \div n_components) + s]),
            act_exp_dot_untransposed(theta, row, n_components, s, j + 1))

\* A = np.reshape(theta, (n_small_components, n_components)).T, then d_A[k]
RECURSIVE act_exp_dot(_, _, _, _, _)
act_exp_dot(theta, row, n_components, s, j) ==
  IF j > n_components THEN Q(0)
  ELSE QAdd(QMul(row[j], theta[(s - 1) * n_components + j]),
            act_exp_dot(theta, row, n_components, s, j + 1))

RECURSIVE SumSquares(_, _)
SumSquares(row, s) ==
  IF s > Len(row) THEN Q(0) ELSE QAdd(QMul(row[s], row[s]), SumSquares(row, s + 1))

\* r[:, 0] for one row of d_A
act_exp_row(d_A_row) == ExpFix(-ToFix(QMul(<<1, 2>>, SumSquares(d_A_row, 1))))

\* the factor of lines 1045-1057 for one row: r[:, 0] = factor * r[:, 0]
act_exp_coef(drow, d_A_row, n_components, grad_ind, hess_ind) ==
  LET d_grad_ind == grad_ind % n_components
      d_A_grad_ind == grad_ind \div n_components
      dAg == d_A_row[Col(d_A_grad_ind, Len(d_A_row))]
  IN IF hess_ind = None
       THEN QMul(QNeg(drow[d_grad_ind + 1]), dAg)
     ELSE LET d_hess_ind == hess_ind[1] % n_components
              d_A_hess_ind == hess_ind[1] \div n_components
              fact0 == QMul(QNeg(dAg), d_A_row[Col(d_A_hess_ind, Len(d_A_row))])
              fact == IF d_A_hess_ind = d_A_grad_ind THEN QAdd(Q(1), fact0) ELSE fact0
          IN QMul(QMul(QNeg(drow[d_grad_ind + 1]), drow[d_hess_ind + 1]), fact)

\* the index failures of lines 1045-1057: d[:, .] has n_components columns,
\* d_A[:, .] has n_small_components
act_exp_index_error(n_components, n_small_components, grad_ind, hess_ind) ==
  /\ grad_ind # None
  /\ \/ ~ColOk(grad_ind[1] \div n_components, n_small_components)
     \/ /\ hess_ind # None
        /\ ~ColOk(hess_ind[1] \div n_components, n_small_components)

\* act_exp_modes without the raise of lines 1059-1060
act_exp_modes_no_raise(d, d_A, grad_ind, hess_ind, derivative_params) ==
  IF grad_ind # None /\ NCols(d) = 0 THEN Raise("ZeroDivisionError")
  ELSE IF grad_ind # None /\ NRows(d) # NRows(d_A) THEN Raise("ValueError")
  ELSE IF act_exp_index_error(NCols(d), NCols(d_A), grad_ind, hess_ind)
    THEN Raise("IndexError")
  ELSE Ok(KVal([k \in 1..NRows(d_A) |->
                  IF grad_ind = None THEN act_exp_row(d_A.a[k])
                  ELSE MulQ(act_exp_row(d_A.a[k]),
                            act_exp_coef(d.a[k], d_A.a[k], NCols(d), grad_ind[1], hess_ind))]))

\* lines 1041-1062, d being d_x when it is given
act_exp_modes(d, d_A, grad_ind, hess_ind, derivative_params) ==
  IF grad_ind # None /\ NCols(d) = 0 THEN Raise("ZeroDivisionError")
  ELSE IF grad_ind # None /\ NRows(d) # NRows(d_A) THEN Raise("ValueError")
  ELSE IF act_exp_index_error(NCols(d), NCols(d_A), grad_ind, hess_ind)
    THEN Raise("IndexError")
  ELSE IF derivative_params # None
    THEN Raise("ValueError: Jacobians are not available for this correlation kernel")
  ELSE Ok(KVal([k \in 1..NRows(d_A) |->
                  IF grad_ind = None THEN act_exp_row(d_A.a[k])
                  ELSE MulQ(act_exp_row(d_A.a[k]),
                            act_exp_coef(d.a[k], d_A.a[k], NCols(d), grad_ind[1], hess_ind))]))

act_exp(theta, d, grad_ind, hess_ind, d_x, derivative_params) ==
  IF NCols(d) = 0 THEN Raise("ZeroDivisionError")
  ELSE IF Len(theta) % NCols(d) # 0
    THEN Raise("Exception: Length of theta must be a multiple of n_components")
  ELSE CHOOSE res \in
         {act_exp_modes(IF d_x # None THEN d_x[1] ELSE d, d_A,
                        grad_ind, hess_ind, derivative_params) :
            d_A \in {[shape |-> <<NRows(d), Len(theta) \div NCols(d)>>,
                      a |-> [k \in 1..NRows(d) |->
                               [s \in 1..(Len(theta) \div NCols(d)) |->
                                  act_exp_dot(theta, d.a[k], NCols(d), s, 1)]]]}} : TRUE

(***************************************************************************)
(* componentwise_distance(D, corr, dim, theta, return_derivative) and      *)
(* componentwise_distance_PLS(D, corr, n_comp, coeff_pls, theta,           *)
(* return_derivative); theta is None or Some(vector).                      *)
(***************************************************************************)
MissingTheta ==
  "ValueError: Missing theta to compute spatial derivative of theta cross-spatial correlation distance"

\* componentwise_distance_derivative that computes the first row only and
\* leaves the other rows of D_corr at zero
componentwise_distance_derivative_first_row(D, corr, theta) ==
  IF theta = None THEN Raise(MissingTheta)
  ELSE IF corr = "act_exp"
    THEN Raise("ValueError: this option is not implemented for active learning")
  ELSE IF Len(theta[1]) # NCols(D) THEN Raise("ValueError")
  ELSE Ok([shape |-> D.shape,
           a |-> [i \in 1..NRows(D) |-> [j \in 1..NCols(D) |->
                    IF i > 1 THEN Q(0)
                    ELSE IF corr = "squar_exp"
                      THEN QMul(Q(2), QMul(theta[1][j], D.a[i][j]))
                      ELSE QMul(theta[1][j], DerSign(D.a[i][j]))]]])

\* lines 1265-1284
componentwise_distance_derivative(D, corr, theta) ==
  IF theta = None THEN Raise(MissingTheta)
  ELSE IF corr = "squar_exp"
    THEN IF Len(theta[1]) # NCols(D) THEN Raise("ValueError")
         ELSE Ok([shape |-> D.shape,
                  a |-> [i \in 1..NRows(D) |-> [j \in 1..NCols(D) |->
                           QMul(Q(2), QMul(theta[1][j], D.a[i][j]))]]])
  ELSE IF corr = "act_exp"
    THEN Raise("ValueError: this option is not implemented for active learning")
  ELSE IF Len(theta[1]) # NCols(D) THEN Raise("ValueError")
  ELSE Ok([shape |-> D.shape,
           a |-> [i \in 1..NRows(D) |-> [j \in 1..NCols(D) |->
                    QMul(theta[1][j], DerSign(D.a[i][j]))]]])

componentwise_distance_nb(D, corr, dim, theta, return_derivative, nb) ==
  IF return_derivative = FALSE
    THEN componentwise_distance_loop(D, corr, 0, Zeros(NRows(D), dim), nb)
    ELSE componentwise_distance_derivative(D, corr, theta)

\* one entry of np.dot(D[chunk] ** 2, coeff_pls ** 2) or of
\* np.dot(np.abs(D[chunk]), np.abs(coeff_pls))
RECURSIVE pls_dot(_, _, _, _, _)
pls_dot(corr, row, coeff_pls, l, j) ==
  IF j > Len(row) THEN Q(0)
  ELSE QAdd(IF corr = "squar_exp"
              THEN QMul(QMul(row[j], row[j]), QMul(coeff_pls.a[j][l], coeff_pls.a[j][l]))
              ELSE QMul(QAbs(row[j]), QAbs(coeff_pls.a[j][l])),
            pls_dot(corr, row, coeff_pls, l, j + 1))

\* the loop `while True` of lines 1332-1346 with chunks of nb rows
RECURSIVE componentwise_distance_PLS_loop(_, _, _, _, _, _)
componentwise_distance_PLS_loop(D, corr, coeff_pls, i, D_corr, nb) ==
  IF i * nb > NRows(D_corr) THEN Ok(D_corr)
  ELSE IF NCols(D) # NRows(coeff_pls) THEN Raise("ValueError")
  ELSE IF ChunkHi(i, nb, NRows(D)) > ChunkLo(i, nb) /\ NCols(coeff_pls) # NCols(D_corr)
            /\ NCols(coeff_pls) # 1
    THEN Raise("ValueError")
  ELSE componentwise_distance_PLS_loop(D, corr, coeff_pls, i + 1,
         [D_corr EXCEPT !.a = [k \in 1..NRows(D_corr) |->
            IF InChunk(k, i, nb, NRows(D))
              THEN [l \in 1..NCols(D_corr) |->
                      pls_dot(corr, D.a[k], coeff_pls,
                              IF NCols(coeff_pls) = 1 THEN 1 ELSE l, 1)]
              ELSE D_corr.a[k]]], nb)

\* coef of lines 1357-1360 and 1371-1373
RECURSIVE pls_coef(_, _, _, _, _)
pls_coef(corr, theta, coeff_row, n_comp, l) ==
  IF l > n_comp THEN Q(0)
  ELSE QAdd(QMul(theta[l], IF corr = "squar_exp"
                             THEN QMul(coeff_row[l], coeff_row[l])
                             ELSE QAbs(coeff_row[l])),
            pls_coef(corr, theta, coeff_row, n_comp, l + 1))

\* lines 1349-1376
componentwise_distance_PLS_derivative(D, corr, n_comp, coeff_pls, theta) ==
  IF theta = None THEN Raise(MissingTheta)
  ELSE IF NRows(D) > 0 /\ NCols(D) > 0 /\ n_comp > 0
          /\ (Len(theta[1]) < n_comp \/ NRows(coeff_pls) < NCols(D)
              \/ NCols(coeff_pls) < n_comp)
    THEN Raise("IndexError")
  ELSE Ok([shape |-> D.shape,
           a |-> [i \in 1..NRows(D) |-> [j \in 1..NCols(D) |->
                    IF corr = "squar_exp"
                      THEN QMul(QMul(Q(2), pls_coef(corr, theta[1], coeff_pls.a[j], n_comp, 1)),
                                D.a[i][j])
                      ELSE QMul(pls_coef(corr, theta[1], coeff_pls.a[j], n_comp, 1),
                                DerSign(D.a[i][j]))]]])

componentwise_distance_PLS_nb(D, corr, n_comp, coeff_pls, theta, return_derivative, nb) ==
  IF return_derivative = FALSE
    THEN componentwise_distance_PLS_loop(D, corr, coeff_pls, 0, Zeros(NRows(D), n_comp), nb)
    ELSE componentwise_distance_PLS_derivative(D, corr, n_comp, coeff_pls, theta)

(***************************************************************************)
(* Specification of the kernels: one call of a kernel, or of a             *)
(* componentwise distance, on arguments drawn from small sets.  par holds  *)
(* the arguments of the call, par.fn the function called and par.nb the    *)
(* chunk size of its loops (int(1e4) in the source).                       *)
(***************************************************************************)
MaxKernelRows == 3

KernelCols == 1..2
ChunkSizes == {1, 2, nb_limit}
ChunkedKernels == {"abs_exp", "squar_exp", "matern52", "matern32"}
Kernels == ChunkedKernels \cup {"act_exp"}
DistanceCorrs == {"squar_exp", "abs_exp", "act_exp", "matern52"}

ThetaVals == {Q(0), <<1, 2>>, Q(1)}

\* the rows of a distance matrix: no distance, distances, and signed differences
KernelRowSet(c) ==
  IF c = 1 THEN {<<Q(0)>>, <<Q(1)>>, <<Q(2)>>, <<Q(-1)>>}
  ELSE {<<Q(0), Q(0)>>, <<Q(1), Q(0)>>, <<Q(1), Q(1)>>, <<Q(-1), Q(1)>>}

KernelMats(rows, c) ==
  UNION {{[shape |-> <<n, c>>, a |-> m] : m \in [1..n -> KernelRowSet(c)]} : n \in rows}

\* one array per shape, with entries -1, 0, 1 and 2
KernelMatOf(n, c) ==
  [shape |-> <<n, c>>,
   a |-> [k \in 1..n |-> [j \in 1..c |-> Q(((3 * k + 2 * j) % 4) - 1)]]]

\* one theta per length, with entries 1/2 and 1
KernelTheta(n) == [p \in 1..n |-> <<2 - (p % 2), 2>>]

KernelThetas(fn, c) ==
  IF fn = "act_exp"
    THEN [1..c -> ThetaVals] \cup {th \o th : th \in [1..c -> ThetaVals]}
    ELSE [1..c -> ThetaVals]

\* the lengths of theta tried on act_exp: c, 2c, and c + 1 (no multiple of c
\* when c > 1)
ActThetaLens(c) == {c, 2 * c, c + 1}

OptIndex(n) == {None} \cup {Some(g) : g \in 0..(n - 1)}

DerivativeParams(n, c) ==
  {None, Some([dd |-> KernelMatOf(n, c), dx |-> KernelMatOf(n, c)])}

KArgs(fn, theta, d, grad_ind, hess_ind, d_x, derivative_params, hess_params, nb) ==
  [fn |-> fn, theta |-> theta, d |-> d, grad_ind |-> grad_ind, hess_ind |-> hess_ind,
   d_x |-> d_x, derivative_params |-> derivative_params, hess_params |-> hess_params,
   nb |-> nb]

DArgs(fn, D, corr, n_comp, coeff_pls, theta, return_derivative, nb) ==
  [fn |-> fn, d |-> D, corr |-> corr, n_comp |-> n_comp, coeff_pls |-> coeff_pls,
   theta |-> theta, return_derivative |-> return_derivative, nb |-> nb]

\* value mode on every theta and every matrix
InitKernelValue ==
  \E fn \in Kernels, c \in KernelCols :
    par \in {KArgs(fn, th, d, None, None, None, None, None, nb_limit) :
               th \in KernelThetas(fn, c), d \in KernelMats(0..MaxKernelRows, c)}

\* gradient mode of abs_exp and squar_exp on every theta
InitKernelGradient ==
  \E fn \in {"abs_exp", "squar_exp"}, c \in KernelCols :
    par \in {KArgs(fn, th, d, g, None, None, None, None, nb_limit) :
               th \in [1..c -> ThetaVals], d \in KernelMats(1..2, c),
               g \in OptIndex(c) \ {None}}

\* every mode and every chunk size of the chunked kernels
InitKernelModes ==
  \E fn \in ChunkedKernels, c \in KernelCols, n \in 0..MaxKernelRows :
    par \in {KArgs(fn, KernelTheta(c), KernelMatOf(n, c), g, h, None, dp, hp, nb) :
               g \in OptIndex(c), h \in OptIndex(c), dp \in DerivativeParams(n, c),
               hp \in IF fn \in {"squar_exp", "matern32"}
                        THEN DerivativeParams(n, c) ELSE {None},
               nb \in ChunkSizes}

InitKernelAct ==
  \E c \in KernelCols, n \in 0..MaxKernelRows :
  \E len \in ActThetaLens(c) :
    par \in {KArgs("act_exp", KernelTheta(len), KernelMatOf(n, c), g, h, dx, dp, None,
                   nb_limit) :
               g \in OptIndex(len), h \in OptIndex(len),
               dx \in {None, Some(KernelMatOf(n, c + 1))},
               dp \in DerivativeParams(n, c)}

InitDistance ==
  \E c \in KernelCols, n \in 0..MaxKernelRows, n_comp \in KernelCols :
    \/ par \in {DArgs("componentwise_distance", KernelMatOf(n, c), corr, c, None,
                      th, rd, nb) :
                  corr \in DistanceCorrs, th \in {None, Some(KernelTheta(c))},
                  rd \in BOOLEAN, nb \in ChunkSizes}
    \/ par \in {DArgs("componentwise_distance_PLS", KernelMatOf(n, c), corr, n_comp,
                      Some(KernelMatOf(c, n_comp)), th, rd, nb) :
                  corr \in DistanceCorrs, th \in {None, Some(KernelTheta(n_comp))},
                  rd \in BOOLEAN, nb \in ChunkSizes}

InitKernel ==
  /\ pc = "start"
  /\ \/ InitKernelValue
     \/ InitKernelGradient
     \/ InitKernelModes
     \/ InitKernelAct
     \/ InitDistance
  /\ X = par.d
  /\ y = None
  /\ xtypes = AllFloat(NCols(X))
  /\ loc = NoLoc
  /\ ret = Raise("none")
  /\ first = Raise("none")
  /\ pre = <<X, y>>

KernelCall(fn, res) ==
  /\ pc = "start"
  /\ par.fn = fn
  /\ pc' = "returned"
  /\ ret' = res
  /\ UNCHANGED <<X, y, xtypes, par, loc, first, pre>>

CallAbsExp ==
  /\ par.fn = "abs_exp"
  /\ \E g \in {abs_exp_nb(par.theta, par.d, par.grad_ind, par.hess_ind,
                          par.derivative_params, par.nb)} : KernelCall("abs_exp", g)

CallSquarExp ==
  /\ par.fn = "squar_exp"
  /\ \E g \in {squar_exp_nb(par.theta, par.d, par.grad_ind, par.hess_ind,
                            par.derivative_params, par.hess_params, par.nb)} :
       KernelCall("squar_exp", g)

CallMatern52 ==
  /\ par.fn = "matern52"
  /\ \E g \in {matern52_nb(par.theta, par.d, par.grad_ind, par.hess_ind,
                           par.derivative_params, par.nb)} : KernelCall("matern52", g)

CallMatern32 ==
  /\ par.fn = "matern32"
  /\ \E g \in {matern32_nb(par.theta, par.d, par.grad_ind, par.hess_ind,
                           par.derivative_params, par.hess_params, par.nb)} :
       KernelCall("matern32", g)

CallActExp ==
  /\ par.fn = "act_exp"
  /\ \E g \in {act_exp(par.theta, par.d, par.grad_ind, par.hess_ind, par.d_x,
                       par.derivative_params)} : KernelCall("act_exp", g)

CallComponentwiseDistance ==
  /\ par.fn = "componentwise_distance"
  /\ \E g \in {componentwise_distance_nb(par.d, par.corr, par.n_comp, par.theta,
                                         par.return_derivative, par.nb)} :
       KernelCall("componentwise_distance", g)

CallComponentwiseDistancePLS ==
  /\ par.fn = "componentwise_distance_PLS"
  /\ \E g \in {componentwise_distance_PLS_nb(par.d, par.corr, par.n_comp,
                 par.coeff_pls[1], par.theta, par.return_derivative, par.nb)} :
       KernelCall("componentwise_distance_PLS", g)

NextKernel ==
  CallAbsExp \/ CallSquarExp \/ CallMatern52 \/ CallMatern32 \/ CallActExp
    \/ CallComponentwiseDistance \/ CallComponentwiseDistancePLS

SpecKernel == InitKernel /\ [][NextKernel]_vars

(***************************************************************************)
(* Claims on the kernels.                                                  *)
(***************************************************************************)
KernelDone == pc = "returned" /\ par.fn \in Kernels

ValueMode ==
  /\ par.grad_ind = None
  /\ par.hess_ind = None
  /\ par.derivative_params = None
  /\ par.hess_params = None

\* theta has the length the kernel asks for
ThetaValid ==
  IF par.fn = "act_exp" THEN Len(par.theta) % NCols(par.d) = 0
  ELSE Len(par.theta) = NCols(par.d)

ThetaNonNegative == \A p \in 1..Len(par.theta) : ~QLess(par.theta[p], Q(0))

ZeroRow(k) == \A j \in 1..NCols(par.d) : par.d.a[k][j] = Q(0)

NonNegativeD ==
  \A k \in 1..NRows(par.d) : \A j \in 1..NCols(par.d) : ~QLess(par.d.a[k][j], Q(0))

\* C11: in value mode, for every kernel and every theta of valid length, a
\* row of D whose entries are all 0 has r = 1.
C11_ZeroDistanceGivesOne ==
  (KernelDone /\ ValueMode /\ ThetaValid)
    => /\ ret.status = "ok"
       /\ Len(ret.value.r) = NRows(par.d)
       /\ \A k \in 1..NRows(par.d) : ZeroRow(k) => ret.value.r[k] = Scale

C11_Witness ==
  /\ KernelDone /\ ValueMode /\ ThetaValid
  /\ par.fn = "matern52"
  /\ \E p \in 1..Len(par.theta) : par.theta[p] # Q(0)
  /\ \E k \in 1..NRows(par.d) : ZeroRow(k) /\ ret.value.r[k] = Scale
  /\ \E k \in 1..NRows(par.d) : ~ZeroRow(k) /\ ret.value.r[k] # Scale

\* C12, as stated: in value mode, for every kernel, every theta >= 0 and any
\* D, every output lies in (0, 1].
C12_UnitIntervalAnyD ==
  (KernelDone /\ ValueMode /\ ThetaValid /\ ThetaNonNegative)
    => /\ ret.status = "ok"
       /\ \A k \in 1..NRows(par.d) : 0 < ret.value.r[k] /\ ret.value.r[k] <= Scale

\* C12, amended: in value mode, for every theta >= 0, every output lies in
\* (0, 1] when D has no negative entry; act_exp, which squares the projected
\* differences, does so for any D.
C12_UnitIntervalOnDistances ==
  (KernelDone /\ ValueMode /\ ThetaValid /\ ThetaNonNegative
     /\ (par.fn = "act_exp" \/ NonNegativeD))
    => /\ ret.status = "ok"
       /\ \A k \in 1..NRows(par.d) : 0 < ret.value.r[k] /\ ret.value.r[k] <= Scale

C12_Witness ==
  /\ KernelDone /\ ValueMode /\ ThetaValid /\ ThetaNonNegative
  /\ par.fn = "matern32"
  /\ NonNegativeD
  /\ \E k \in 1..NRows(par.d) : 0 < ret.value.r[k] /\ ret.value.r[k] < Scale

\* a call of act_exp on a matrix with a negative entry, its output inside (0, 1)
C12_WitnessAct ==
  /\ KernelDone /\ ValueMode /\ ThetaValid
  /\ par.fn = "act_exp"
  /\ ~NonNegativeD
  /\ \E k \in 1..NRows(par.d) : 0 < ret.value.r[k] /\ ret.value.r[k] < Scale

\* the call of the state with chunks of nb rows
KernelResult(nb) ==
  CASE par.fn = "abs_exp" ->
         abs_exp_nb(par.theta, par.d, par.grad_ind, par.hess_ind,
                    par.derivative_params, nb)
    [] par.fn = "squar_exp" ->
         squar_exp_nb(par.theta, par.d, par.grad_ind, par.hess_ind,
                      par.derivative_params, par.hess_params, nb)
    [] par.fn = "matern52" ->
         matern52_nb(par.theta, par.d, par.grad_ind, par.hess_ind,
                     par.derivative_params, nb)
    [] par.fn = "matern32" ->
         matern32_nb(par.theta, par.d, par.grad_ind, par.hess_ind,
                     par.derivative_params, par.hess_params, nb)

\* C13: for every row count N >= 0 and every chunk size >= 1 the chunked
\* loops of abs_exp, squar_exp, matern32 and matern52 end, and the result is
\* the result of one pass over all the rows of D (a chunk of more than N rows).
C13_ChunkingNotObservable ==
  (pc = "returned" /\ par.fn \in ChunkedKernels)
    => ret = KernelResult(NRows(par.d) + 1)

\* several chunks, the row count an exact multiple of the chunk size, both
\* derivative loops run
C13_Witness ==
  /\ pc = "returned" /\ par.fn = "matern52"
  /\ par.nb = 1
  /\ NRows(par.d) = 2
  /\ par.grad_ind # None /\ par.hess_ind = par.grad_ind
  /\ ret.status = "ok"
  /\ \E k \in 1..2 : ret.value.r[k] # 0

\* no row at all: the loop runs once on an empty slice
C13_WitnessEmpty ==
  /\ pc = "returned" /\ par.fn \in ChunkedKernels
  /\ NRows(par.d) = 0
  /\ par.nb = 1
  /\ par.grad_ind # None
  /\ ret.status = "ok"
  /\ ret.value.r = <<>>

\* C14, as stated: for every kernel, a call with hess_ind set and grad_ind
\* unset returns no result array.
C14_HessianRequiresGradInd ==
  (KernelDone /\ ThetaValid /\ par.hess_ind # None /\ par.grad_ind = None)
    => ret.status # "ok"

\* C15: act_exp with derivative_params ends in the error "Jacobians are not
\* available" whatever grad_ind and hess_ind are, and a theta whose length is
\* no multiple of the number of columns of D ends in the theta-length error
\* whatever the other arguments are.
C15_ActExpNoJacobian ==
  (KernelDone /\ par.fn = "act_exp")
    => /\ (ThetaValid /\ par.derivative_params # None)
            => /\ ret.status =
                    "ValueError: Jacobians are not available for this correlation kernel"
               /\ ret.value = None
       /\ ~ThetaValid
            => /\ ret.status =
                    "Exception: Length of theta must be a multiple of n_components"
               /\ ret.value = None

C15_Witness ==
  /\ KernelDone /\ par.fn = "act_exp"
  /\ ThetaValid
  /\ Len(par.theta) = 2 * NCols(par.d)
  /\ par.derivative_params # None
  /\ par.grad_ind # None /\ par.hess_ind # None
  /\ NRows(par.d) > 0
  /\ ret.status = "ValueError: Jacobians are not available for this correlation kernel"

C15_WitnessLength ==
  /\ KernelDone /\ par.fn = "act_exp"
  /\ ~ThetaValid
  /\ par.derivative_params # None
  /\ ret.status = "Exception: Length of theta must be a multiple of n_components"

\* the errors the code raises by name
ExplicitErrors ==
  {MissingTheta,
   "ValueError: this option is not implemented for active learning",
   "ValueError: Jacobians are not available for this correlation kernel",
   "Exception: Length of theta must be a multiple of n_components"}

\* a spatial derivative is asked for and its auxiliary input is not given
MissingAuxiliary ==
  \/ /\ par.fn \in {"componentwise_distance", "componentwise_distance_PLS"}
     /\ par.return_derivative
     /\ par.theta = None
  \/ /\ par.fn \in {"squar_exp", "matern32"}
     /\ par.hess_params # None
     /\ par.derivative_params = None

\* C16, as stated: a spatial-derivative request without its auxiliary input
\* ends in an explicit, named error.
C16_MissingInputNamedError ==
  (pc = "returned" /\ MissingAuxiliary) => ret.status \in ExplicitErrors

\* the part of C16 on the two distance functions, which holds
MissingThetaNamedError ==
  (pc = "returned" /\ par.fn \in {"componentwise_distance", "componentwise_distance_PLS"}
     /\ par.return_derivative /\ par.theta = None)
    => ret.status = MissingTheta

\* the value-mode output of the call of the state
ValueOf ==
  IF par.fn = "abs_exp"
    THEN abs_exp_nb(par.theta, par.d, None, None, None, par.nb).value.r
    ELSE squar_exp_nb(par.theta, par.d, None, None, None, None, par.nb).value.r

GradientMode ==
  /\ par.fn \in {"abs_exp", "squar_exp"}
  /\ par.grad_ind # None
  /\ par.hess_ind = None
  /\ par.derivative_params = None
  /\ par.hess_params = None

ExampleArgs ==
  /\ par.fn = "squar_exp"
  /\ par.theta = <<Q(1), Q(1)>>
  /\ par.d = [shape |-> <<1, 2>>, a |-> <<<<Q(1), Q(0)>>>>]

\* C17: in gradient mode of abs_exp and squar_exp, the output has the shape
\* of the value-mode output and row k is -D[k, g] times the value-mode r[k];
\* theta = [1, 1] and D = [[1, 0]] give exp(-1) in value mode and -exp(-1)
\* for g = 0.
C17_GradientIsMinusDTimesValue ==
  /\ (pc = "returned" /\ GradientMode)
       => /\ ret.status = "ok"
          /\ ret.value.kind = "r"
          /\ Len(ret.value.r) = Len(ValueOf)
          /\ \A k \in 1..NRows(par.d) :
               ret.value.r[k] = MulQ(ValueOf[k], QNeg(par.d.a[k][par.grad_ind[1] + 1]))
  /\ (pc = "returned" /\ ExampleArgs /\ ValueMode) => ret.value.r = <<ExpFix(-Scale)>>
  /\ (pc = "returned" /\ ExampleArgs /\ GradientMode /\ par.grad_ind = Some(0))
       => ret.value.r = <<-ExpFix(-Scale)>>

C17_Witness ==
  /\ pc = "returned" /\ ExampleArgs /\ GradientMode
  /\ par.grad_ind = Some(0)
  /\ ret.value.r = <<-ExpFix(-Scale)>>

C17_WitnessValue ==
  /\ pc = "returned" /\ ExampleArgs /\ ValueMode
  /\ ret.value.r = <<ExpFix(-Scale)>>

\* the Hessian of pair k from its own correlation value and differences
HessianOfPair(k, rk) ==
  LET dd == par.hess_params[1].dd
  IN [i \in 1..NCols(par.d) |-> [j \in 1..NCols(par.d) |->
        IF i = j
          THEN -MulQ(rk, QSub(QMul(Q(2), par.theta[i]), QMul(dd.a[k][i], dd.a[k][i])))
          ELSE MulQ(rk, QMul(dd.a[k][i], dd.a[k][j]))]]

SecondDerivativeCall ==
  /\ pc = "returned" /\ par.fn = "squar_exp"
  /\ par.derivative_params # None
  /\ par.hess_params # None
  /\ NRows(par.d) >= 1

\* C18, as stated: squar_exp with derivative_params and hess_params returns,
\* for N >= 1 pairs and c components, an array of shape N x c x c whose slice
\* k is the Hessian of pair k.
C18_HessianPerPair ==
  SecondDerivativeCall
    => /\ ret.status = "ok"
       /\ ret.value.kind = "d2r"
       /\ ret.value.d2r[1].shape = <<NRows(par.d), NCols(par.d), NCols(par.d)>>
       /\ \A k \in 1..NRows(par.d) :
            ret.value.d2r[1].a[k]
              = HessianOfPair(k, squar_exp_nb(par.theta, par.d, par.grad_ind, par.hess_ind,
                                              None, None, par.nb).value.r[k])

\* with one pair the array is returned, and it is the Hessian of that pair
HessianOfOnePair ==
  (SecondDerivativeCall /\ NRows(par.d) = 1)
    => /\ ret.status = "ok"
       /\ ret.value.d2r[1].shape = <<1, NCols(par.d), NCols(par.d)>>

\* with two pairs or more no array is returned
HessianOfSeveralPairsFails ==
  (SecondDerivativeCall /\ NRows(par.d) >= 2)
    => ret.status = "ValueError: setting an array element with a sequence."

(***************************************************************************)
(* ge_compute_pls(X, y, n_comp, pts, delta_x, xlimits, extra_points,       *)
(*                zeroy)                                                   *)
(*                                                                         *)
(* pts is the sequence, over the input dimensions j = 1..dim, of the       *)
(* columns pts[None][j][1] of the gradient with respect to x_j.  The PLS   *)
(* regression is a library: fit is the sequence of the outcomes of the     *)
(* successive calls _pls.fit, each either the matrix x_rotations_ or the   *)
(* exception StopIteration.  The numbers are exact rationals.              *)
(***************************************************************************)
\* delta_x * (xlimits[j, 1] - xlimits[j, 0]) for the dimension j = 1..dim
ge_step(delta_x, xlimits, j) == QMul(delta_x, QSub(xlimits.a[j][2], xlimits.a[j][1]))

\* the displacements of lines 1126-1180: center, right, up, left, down, right
\* up, left up, left down, right down
StencilSigns ==
  <<(<<0, 0>>), (<<1, 0>>), (<<0, 1>>), (<<-1, 0>>), (<<0, -1>>),
    (<<1, 1>>), (<<-1, 1>>), (<<-1, -1>>), (<<1, -1>>)>>

\* np.roll(bbdesign(3, center=1), 1, axis=0): the center, then the two-level
\* designs of the pairs of factors
BBDesign3 ==
  <<(<<0, 0, 0>>),
    (<<-1, -1, 0>>), (<<1, -1, 0>>), (<<-1, 1, 0>>), (<<1, 1, 0>>),
    (<<-1, 0, -1>>), (<<1, 0, -1>>), (<<-1, 0, 1>>), (<<1, 0, 1>>),
    (<<0, -1, -1>>), (<<0, 1, -1>>), (<<0, -1, 1>>), (<<0, 1, 1>>)>>

\* sum over the dimensions of sign * step * gradient, for one row of signs
RECURSIVE ge_taylor(_, _, _, _, _, _)
ge_taylor(signs, pts, delta_x, xlimits, i, j) ==
  IF j > Len(signs) THEN Q(0)
  ELSE QAdd(QMul(Q(signs[j]), QMul(QMul(pts[j][i + 1], delta_x),
                                   QSub(xlimits.a[j][2], xlimits.a[j][1]))),
            ge_taylor(signs, pts, delta_x, xlimits, i, j + 1))

\* _X and _y of a design given by its rows of signs
ge_design(design, Xt, yt, pts, delta_x, xlimits, i, ny) ==
  [X |-> [r \in 1..Len(design) |-> [c \in 1..NCols(Xt) |->
            IF c <= Len(design[r])
              THEN QAdd(Xt.a[i + 1][c], QMul(Q(design[r][c]), ge_step(delta_x, xlimits, c)))
              ELSE Xt.a[i + 1][c]]],
   y |-> [r \in 1..Len(design) |-> [c \in 1..ny |->
            QAdd(yt.a[i + 1][c], ge_taylor(design[r], pts, delta_x, xlimits, i, 1))]]]

\* lines 1114-1180 for the training point i: the stencil, or the failure of
\* `_X[2, 1] += ...` (of `_X[1, 0] += ...` without any column)
ge_stencil(Xt, yt, pts, delta_x, xlimits, i) ==
  IF NCols(Xt) >= 3
    THEN IF NRows(xlimits) # NCols(Xt) THEN Raise("ValueError")
         ELSE IF Len(pts) < NCols(Xt) THEN Raise("IndexError")
         ELSE Ok(ge_design(BBDesign3, Xt, yt, pts, delta_x, xlimits, i, NCols(yt)))
  ELSE IF NCols(yt) < 1 THEN Raise("IndexError")
  ELSE IF NCols(Xt) < 2 \/ NRows(xlimits) < 2 \/ Len(pts) < 2 THEN Raise("IndexError")
  ELSE Ok(ge_design(StencilSigns, Xt, yt, pts, delta_x, xlimits, i, 1))

\* ge_fit with the exception of the fit not caught
ge_fit_uncaught(zeroy, outcome, dim, n_comp) ==
  IF ~zeroy
    THEN IF outcome.status = "ok" THEN outcome ELSE Raise(outcome.status)
    ELSE Ok(Zeros(dim, n_comp).a)

\* lines 1184-1191: coeff_pls[i, :, :]
ge_fit(zeroy, outcome, dim, n_comp) ==
  IF ~zeroy
    THEN IF outcome.status = "ok" THEN outcome
         ELSE IF outcome.status = "StopIteration" THEN Ok(Zeros(dim, n_comp).a)
         ELSE Raise(outcome.status)
    ELSE Ok(Zeros(dim, n_comp).a)

\* np.argsort of a vector: the 0-based indices by increasing value, equal
\* values by increasing index
ArgSort(v) ==
  LET rank(j) == Cardinality({l \in 1..Len(v) :
                               QLess(v[l], v[j]) \/ (v[l] = v[j] /\ l < j)})
  IN [p \in 1..Len(v) |-> (CHOOSE j \in 1..Len(v) : rank(j) = p - 1) - 1]

\* np.argsort(np.abs(coeff_pls[i, :, 0]))[-extra_points:]
ge_max_coeff(coeff, extra_points) ==
  LET order == ArgSort([j \in 1..Len(coeff) |-> QAbs(coeff[j][1])])
      n == Len(order)
  IN SubSeq(order, (IF extra_points < n THEN n - extra_points ELSE 0) + 1, n)

\* lines 1196-1204: the rows appended to XX and to yy for the training point i
ge_extra_X(Xt, delta_x, xlimits, i, max_coeff) ==
  [t \in 1..Len(max_coeff) |-> [c \in 1..NCols(Xt) |->
     IF c = max_coeff[t] + 1
       THEN QAdd(Xt.a[i + 1][c], ge_step(delta_x, xlimits, c))
       ELSE Xt.a[i + 1][c]]]

ge_extra_y(yt, pts, delta_x, xlimits, i, max_coeff) ==
  [t \in 1..Len(max_coeff) |-> [c \in 1..NCols(yt) |->
     QAdd(yt.a[i + 1][c],
          QMul(QMul(pts[1 + max_coeff[t]][i + 1], delta_x),
               QSub(xlimits.a[max_coeff[t] + 1][2], xlimits.a[max_coeff[t] + 1][1])))]]

\* np.abs(coeff_pls).mean(axis=0)
RECURSIVE SumAbs(_, _, _, _)
SumAbs(coeff_pls, j, l, i) ==
  IF i > Len(coeff_pls) THEN Q(0)
  ELSE QAdd(QAbs(coeff_pls[i][j][l]), SumAbs(coeff_pls, j, l, i + 1))

ge_mean(coeff_pls, dim, n_comp) ==
  [j \in 1..dim |-> [l \in 1..n_comp |->
     QDiv(SumAbs(coeff_pls, j, l, 1), Q(Len(coeff_pls)))]]

\* the body of the loop `for i in range(nt)` from the state st of the arrays
ge_compute_pls_point(Xt, yt, n_comp, pts, delta_x, xlimits, extra_points, zeroy, fit, i, st) ==
  LET sten == ge_stencil(Xt, yt, pts, delta_x, xlimits, i)
      c == ge_fit(zeroy, fit[i + 1], NCols(Xt), n_comp)
  IN IF sten.status # "ok" THEN MRet(sten.status, None, st)
     ELSE IF c.status # "ok" THEN MRet(c.status, None, st)
     ELSE LET max_coeff == IF extra_points # 0 THEN ge_max_coeff(c.value, extra_points)
                           ELSE <<>>
          IN MRet("ok", None,
               [coeff_pls |-> Append(st.coeff_pls, c.value),
                stencils |-> Append(st.stencils, sten.value),
                XX |-> st.XX \o ge_extra_X(Xt, delta_x, xlimits, i, max_coeff),
                yy |-> st.yy \o ge_extra_y(yt, pts, delta_x, xlimits, i, max_coeff)])

RECURSIVE ge_compute_pls_loop(_, _, _, _, _, _, _, _, _, _, _)
ge_compute_pls_loop(Xt, yt, n_comp, pts, delta_x, xlimits, extra_points, zeroy, fit, i, st) ==
  IF i >= NRows(Xt)
    THEN MRet("ok", <<ge_mean(st.coeff_pls, NCols(Xt), n_comp), st.XX, st.yy>>, st)
  ELSE CHOOSE res \in
         {IF g.status # "ok" THEN g
          ELSE ge_compute_pls_loop(Xt, yt, n_comp, pts, delta_x, xlimits, extra_points,
                                   zeroy, fit, i + 1, g.locals) :
            g \in {ge_compute_pls_point(Xt, yt, n_comp, pts, delta_x, xlimits,
                                        extra_points, zeroy, fit, i, st)}} : TRUE

ge_compute_pls(Xt, yt, n_comp, pts, delta_x, xlimits, extra_points, zeroy, fit) ==
  ge_compute_pls_loop(Xt, yt, n_comp, pts, delta_x, xlimits, extra_points, zeroy, fit, 0,
                      [coeff_pls |-> <<>>, stencils |-> <<>>, XX |-> <<>>, yy |-> <<>>])

(***************************************************************************)
(* Specification of the gradient-enhanced PLS coefficients: one call of    *)
(* ge_compute_pls on nt training points of 1, 2 or 3 input dimensions.     *)
(***************************************************************************)
MaxPts == 2

PlsDims == 1..3
PlsComps == 1..2

PlsX(nt, dim) ==
  [shape |-> <<nt, dim>>, a |-> [i \in 1..nt |-> [j \in 1..dim |-> Q(i + 2 * j)]]]

PlsY(nt) == [shape |-> <<nt, 1>>, a |-> [i \in 1..nt |-> <<Q(3 * i)>>]]

\* the gradients, one family per s: entries -1, 0, 1 and 2
PlsGradients(nt, dim, s) ==
  [j \in 1..dim |-> [i \in 1..nt |-> Q(((s * j + i) % 4) - 1)]]

\* xlimits: dimension j ranges over [-j, j + 1]
PlsLimits(dim) ==
  [shape |-> <<dim, 2>>, a |-> [j \in 1..dim |-> <<Q(-j), Q(j + 1)>>]]

\* the outcomes of a fit: the exception, a matrix with entries -1, 0 and 1,
\* a matrix with entries of distinct sizes
PlsFits(dim, n_comp) ==
  {Raise("StopIteration"),
   Ok([j \in 1..dim |-> [l \in 1..n_comp |-> Q(((j + 2 * l) % 3) - 1)]]),
   Ok([j \in 1..dim |-> [l \in 1..n_comp |->
         <<(IF j % 2 = 0 THEN j ELSE -j), l + 1>>]])}

PArgs(n_comp, pts, delta_x, xlimits, extra_points, zeroy, fit) ==
  [fn |-> "ge_compute_pls", n_comp |-> n_comp, pts |-> pts, delta_x |-> delta_x,
   xlimits |-> xlimits, extra_points |-> extra_points, zeroy |-> zeroy, fit |-> fit]

InitPls ==
  /\ pc = "start"
  /\ \E nt \in 1..MaxPts, dim \in PlsDims :
       /\ X = PlsX(nt, dim)
       /\ y = Some(PlsY(nt))
       /\ par \in {PArgs(n_comp, PlsGradients(nt, dim, s), <<1, 10>>, PlsLimits(dim),
                         e, zeroy, fit) :
                     n_comp \in PlsComps, s \in 1..3, e \in 0..(dim + 1), zeroy \in BOOLEAN,
                     fit \in UNION {[1..nt -> PlsFits(dim, n_comp)] : n_comp \in PlsComps}}
  /\ \A i \in 1..NRows(X) :
       par.fit[i].status = "ok" => Len(par.fit[i].value[1]) = par.n_comp
  /\ xtypes = AllFloat(NCols(X))
  /\ loc = NoLoc
  /\ ret = Raise("none")
  /\ first = Raise("none")
  /\ pre = <<X, y>>

CallGeComputePls ==
  /\ pc = "start"
  /\ par.fn = "ge_compute_pls"
  /\ pc' = "returned"
  /\ \E g \in {ge_compute_pls(X, y[1], par.n_comp, par.pts, par.delta_x, par.xlimits,
                              par.extra_points, par.zeroy, par.fit)} :
       /\ ret' = [status |-> g.status, value |-> g.value]
       /\ loc' = g.locals
  /\ UNCHANGED <<X, y, xtypes, par, first, pre>>

NextPls == CallGeComputePls

SpecPls == InitPls /\ [][NextPls]_vars

(***************************************************************************)
(* Claims on ge_compute_pls.                                               *)
(***************************************************************************)
PlsDone == pc = "returned" /\ par.fn = "ge_compute_pls"

\* the local fit of the training point i (1-based) degenerates
DegenerateFit(i) == par.zeroy \/ par.fit[i].status = "StopIteration"

\* the contribution of the training point i
Contribution(i) ==
  IF DegenerateFit(i) THEN [j \in 1..NCols(X) |-> [l \in 1..par.n_comp |-> Q(0)]]
  ELSE par.fit[i].value

RECURSIVE SumAbsContribution(_, _, _)
SumAbsContribution(j, l, i) ==
  IF i > NRows(X) THEN Q(0)
  ELSE QAdd(QAbs(Contribution(i)[j][l]), SumAbsContribution(j, l, i + 1))

C19_WitnessZeroy ==
  /\ PlsDone
  /\ ret.status = "ok"
  /\ par.zeroy
  /\ par.fit[1].status = "ok"

\* the stencil of the training point i (1-based) is the 9-point stencil and
\* its outputs are the first-order Taylor predictions
NinePointStencil(i) ==
  /\ Len(loc.stencils[i].X) = 9
  /\ Len(loc.stencils[i].y) = 9
  /\ \A r \in 1..9 :
       /\ \A c \in 1..NCols(X) :
            loc.stencils[i].X[r][c]
              = QAdd(X.a[i][c],
                     QMul(Q(StencilSigns[r][c]),
                          QMul(par.delta_x, QSub(par.xlimits.a[c][2], par.xlimits.a[c][1]))))
       /\ loc.stencils[i].y[r][1]
            = QAdd(y[1].a[i][1],
                   IF NCols(X) = 1
                     THEN QMul(par.pts[1][i], QSub(loc.stencils[i].X[r][1], X.a[i][1]))
                     ELSE QAdd(QMul(par.pts[1][i], QSub(loc.stencils[i].X[r][1], X.a[i][1])),
                               QMul(par.pts[2][i], QSub(loc.stencils[i].X[r][2], X.a[i][2]))))

\* C20, as stated: for the input dimensions 1 and 2 the call builds, without
\* a failure, the 9-point stencil of every training point, each output being
\* the training output plus the sum of gradient * displacement.
C20_NinePointStencil ==
  (PlsDone /\ NCols(X) \in {1, 2})
    => /\ ret.status = "ok"
       /\ Len(loc.stencils) = NRows(X)
       /\ \A i \in 1..NRows(X) : NinePointStencil(i)

\* the part of C20 on dimension 2, which holds
StencilInDimensionTwo ==
  (PlsDone /\ NCols(X) = 2)
    => /\ ret.status = "ok"
       /\ Len(loc.stencils) = NRows(X)
       /\ \A i \in 1..NRows(X) : NinePointStencil(i)

\* in dimension 1 the call fails on the first training point
StencilInDimensionOneFails ==
  (PlsDone /\ NCols(X) = 1) => (ret.status = "IndexError" /\ loc.stencils = <<>>)

\* XX and yy hold m rows per training point, in training order; the rows of
\* training point i equal X[i] but for one coordinate each, raised by
\* delta_x * (upper - lower); the m coordinates are distinct and no other
\* coordinate has a larger absolute first-component coefficient; the row of
\* yy is y[i] plus gradient * step of that coordinate
ExtraRowsPerPoint(m) ==
  LET XX == ret.value[2]
      yy == ret.value[3]
      step(c) == QMul(par.delta_x, QSub(par.xlimits.a[c][2], par.xlimits.a[c][1]))
      raised(i, c) == [X.a[i] EXCEPT ![c] = QAdd(X.a[i][c], step(c))]
      dims(i) == {c \in 1..NCols(X) : \E t \in 1..m : XX[(i - 1) * m + t] = raised(i, c)}
  IN /\ Len(XX) = m * NRows(X)
     /\ Len(yy) = m * NRows(X)
     /\ \A i \in 1..NRows(X) :
          /\ \A t \in 1..m :
               \E c \in 1..NCols(X) :
                 /\ XX[(i - 1) * m + t] = raised(i, c)
                 /\ yy[(i - 1) * m + t]
                      = <<QAdd(y[1].a[i][1], QMul(par.pts[c][i], step(c)))>>
          /\ Cardinality(dims(i)) = m
          /\ \A c \in dims(i) : \A u \in (1..NCols(X)) \ dims(i) :
               ~QLess(QAbs(Contribution(i)[c][1]), QAbs(Contribution(i)[u][1]))

\* C23, as stated: a call with extra_points = e returns XX and yy of
\* e * nt rows (none for e = 0), the e rows of a training point being that
\* point raised in the e distinct coordinates of largest absolute
\* first-component coefficient.
C23_ExtraPointsRows ==
  PlsDone => (ret.status = "ok" /\ ExtraRowsPerPoint(par.extra_points))

\* what holds: from two input dimensions on the call returns, with
\* min(extra_points, dim) rows per training point
ExtraPointsFromDimensionTwo ==
  (PlsDone /\ NCols(X) >= 2)
    => /\ ret.status = "ok"
       /\ ExtraRowsPerPoint(IF par.extra_points < NCols(X) THEN par.extra_points
                            ELSE NCols(X))

(***************************************************************************)
(* The regression models constant(x), linear(x) and quadratic(x), on x of  *)
(* shape (n_eval, n_features).                                             *)
(***************************************************************************)
\* np.hstack([A, B]) of two matrices with the same number of rows
hstack(A, B) ==
  [shape |-> <<NRows(A), NCols(A) + NCols(B)>>,
   a |-> [r \in 1..NRows(A) |-> A.a[r] \o B.a[r]]]

\* np.ones([n_eval, 1])
Ones(n_eval) == [shape |-> <<n_eval, 1>>, a |-> [r \in 1..n_eval |-> <<Q(1)>>]]

constant(x) == Ones(NRows(x))

linear(x) == hstack(Ones(NRows(x)), x)

\* x[:, k, np.newaxis] * x[:, k:] for the 0-based column k
quadratic_products(x, k) ==
  [shape |-> <<NRows(x), NCols(x) - k>>,
   a |-> [r \in 1..NRows(x) |->
            [j \in 1..(NCols(x) - k) |-> QMul(x.a[r][k + 1], x.a[r][k + j])]]]

\* for k in range(n_features): f = np.hstack([f, ...]), from the column k
RECURSIVE quadratic_loop(_, _, _)
quadratic_loop(x, k, f) ==
  IF k >= NCols(x) THEN f
  ELSE quadratic_loop(x, k + 1, hstack(f, quadratic_products(x, k)))

quadratic(x) == quadratic_loop(x, 0, hstack(Ones(NRows(x)), x))

(***************************************************************************)
(* Specification of the regression models: one call on a matrix of up to   *)
(* MaxEval rows and up to three features.                                  *)
(***************************************************************************)
MaxEval == 2

Features == 0..3
RegressionVals == {-1, 2}
RegressionModels == {"constant", "linear", "quadratic"}

InitRegression ==
  /\ pc = "start"
  /\ X \in Mats(0..MaxEval, Features, RegressionVals)
  /\ par \in {[fn |-> fn] : fn \in RegressionModels}
  /\ y = None
  /\ xtypes = AllFloat(NCols(X))
  /\ loc = NoLoc
  /\ ret = Raise("none")
  /\ first = Raise("none")
  /\ pre = <<X, y>>

RegressionCall(fn, f) ==
  /\ pc = "start"
  /\ par.fn = fn
  /\ pc' = "returned"
  /\ ret' = Ok(f)
  /\ UNCHANGED <<X, y, xtypes, par, loc, first, pre>>

CallConstant == \E f \in {constant(X)} : RegressionCall("constant", f)

CallLinear == \E f \in {linear(X)} : RegressionCall("linear", f)

CallQuadratic == \E f \in {quadratic(X)} : RegressionCall("quadratic", f)

NextRegression ==
  \/ CallConstant
  \/ CallLinear
  \/ CallQuadratic

SpecRegression == InitRegression /\ [][NextRegression]_vars

(***************************************************************************)
(* Claims on the regression models.                                        *)
(***************************************************************************)
QuadraticDone == pc = "returned" /\ par.fn = "quadratic"

\* the 0-based pairs (i, j) of features with i <= j
Pairs(n) == {<<i, j>> \in (0..(n - 1)) \X (0..(n - 1)) : i <= j}

\* the row r of f starts with the constant 1 and the coordinates of x
ConstantAndCoordinates(f, r) ==
  /\ Len(f.a[r]) >= NCols(X) + 1
  /\ f.a[r][1] = Q(1)
  /\ \A i \in 1..NCols(X) : f.a[r][1 + i] = X.a[r][i]

\* C21, as stated: quadratic(x) has n_eval rows and n * (n - 1) / 2 + n + 1
\* columns, the constant 1, the n coordinates and the products x_i * x_j.
C21_QuadraticColumnCount ==
  QuadraticDone
    => /\ ret.status = "ok"
       /\ NRows(ret.value) = NRows(X)
       /\ Len(ret.value.a) = NRows(X)
       /\ NCols(ret.value) = (NCols(X) * (NCols(X) - 1)) \div 2 + NCols(X) + 1
       /\ \A r \in 1..NRows(X) :
            /\ Len(ret.value.a[r]) = NCols(ret.value)
            /\ ConstantAndCoordinates(ret.value, r)

\* what the code returns: n * (n + 1) / 2 + n + 1 columns, the products
\* x_i * x_j for i <= j, the squares included, in the order of (i, j)
QuadraticWithSquares ==
  QuadraticDone
    => /\ ret.status = "ok"
       /\ NRows(ret.value) = NRows(X)
       /\ Len(ret.value.a) = NRows(X)
       /\ NCols(ret.value) = (NCols(X) * (NCols(X) + 1)) \div 2 + NCols(X) + 1
       /\ \A r \in 1..NRows(X) :
            /\ Len(ret.value.a[r]) = NCols(ret.value)
            /\ ConstantAndCoordinates(ret.value, r)
            /\ \A p \in Pairs(NCols(X)) :
                 ret.value.a[r][NCols(X) + 1
                                + Cardinality({q \in Pairs(NCols(X)) :
                                                 q[1] < p[1] \/ (q[1] = p[1] /\ q[2] <= p[2])})]
                   = QMul(X.a[r][p[1] + 1], X.a[r][p[2] + 1])

\* the regression models constant and linear have 1 and n + 1 columns
LowerOrderColumns ==
  (pc = "returned" /\ par.fn \in {"constant", "linear"})
    => /\ NRows(ret.value) = NRows(X)
       /\ NCols(ret.value) = IF par.fn = "constant" THEN 1 ELSE NCols(X) + 1
       /\ \A r \in 1..NRows(X) : Len(ret.value.a[r]) = NCols(ret.value)

(***************************************************************************)
(* The indices into theta_cat of the full categorical variant.             *)
(***************************************************************************)
\* lines 480-488: the entries <<j, k + j, v>> at which the loops over j and
\* k write theta_cat[v] into Theta_mat, in the order of the writes
RECURSIVE matrix_data_corr_angle_reads(_, _, _, _, _)
matrix_data_corr_angle_reads(nl, j, k, v, reads) ==
  IF j >= nl THEN reads
  ELSE IF k >= nl - j THEN matrix_data_corr_angle_reads(nl, j + 1, 0, v, reads)
  ELSE IF j = k + j THEN matrix_data_corr_angle_reads(nl, j, k + 1, v, reads)
  ELSE matrix_data_corr_angle_reads(nl, j, k + 1, v + 1, Append(reads, <<j, k + j, v>>))

\* lines 523-524: the index into theta_cat of the decay term of a level
matrix_data_corr_decay_index(nl, ind) == NHomo(nl) + ind

FullVariantDone == CorrDone /\ par.cat_kernel = FULL_GAUSSIAN

\* the 0-based indices into theta_cat read as angles for a factor of nl levels
AngleIndices(nl) ==
  LET reads == matrix_data_corr_angle_reads(nl, 0, 0, 0, <<>>)
  IN {reads[t][3] : t \in 1..Len(reads)}

\* the 0-based indices into theta_cat read as decay terms for a factor of
\* nl levels
DecayIndices(nl) == {matrix_data_corr_decay_index(nl, ind) : ind \in 0..(nl - 1)}

\* C22: in the full variant, for every factor of L levels, theta_cat has
\* L(L+1)/2 entries; Theta_mat is filled from its first L(L-1)/2 entries,
\* one per pair of distinct levels, and these entries and no other are the
\* slice entries scaled by pi/2 over the bound; the decay terms of a pair
\* of unequal levels (a, b) are read at L(L-1)/2 + a and L(L-1)/2 + b,
\* inside theta_cat, the decay indices are the trailing L entries, and no
\* index is both an angle and a decay index.
C22_FullSliceIndexing ==
  FullVariantDone =>
    /\ ret.status = "ok"
    /\ Len(loc.m.theta_cat) = Len(loc.n_levels)
    /\ \A f \in 1..Len(loc.n_levels) :
         LET nl == loc.n_levels[f]
             s == SliceStart(xtypes, par.cat_kernel, FactorCol(xtypes, f))
             tc == loc.m.theta_cat[f]
             blk == FreshBlock(f)
             reads == matrix_data_corr_angle_reads(nl, 0, 0, 0, <<>>)
         IN /\ Len(tc) = NFull(nl)
            /\ blk.theta_cat = tc
            /\ Len(reads) = NHomo(nl)
            /\ AngleIndices(nl) = 0..(NHomo(nl) - 1)
            /\ {<<reads[t][1], reads[t][2]>> : t \in 1..Len(reads)}
                 = {<<a, b>> \in (0..(nl - 1)) \X (0..(nl - 1)) : a < b}
            /\ \A t \in 1..Len(reads) :
                 /\ blk.Theta_mat[reads[t][1] + 1][reads[t][2] + 1] = tc[reads[t][3] + 1]
                 /\ blk.Theta_mat[reads[t][2] + 1][reads[t][1] + 1] = tc[reads[t][3] + 1]
            /\ \A p \in 1..Len(tc) :
                 tc[p] = IF p - 1 \in AngleIndices(nl)
                           THEN Turn(QDiv(par.theta[s + p], Q(par.theta_bounds[2])))
                           ELSE par.theta[s + p]
            /\ DecayIndices(nl) = NHomo(nl)..(NFull(nl) - 1)
            /\ DecayIndices(nl) \cap AngleIndices(nl) = {}
            /\ \A k \in 1..NRows(loc.ij) :
                 LET a == LevelOf(k, 1, f)
                     b == LevelOf(k, 2, f)
                     da == matrix_data_corr_decay_index(nl, a)
                     db == matrix_data_corr_decay_index(nl, b)
                 IN a # b =>
                      /\ {da, db} \subseteq 0..(Len(tc) - 1)
                      /\ {da, db} \subseteq DecayIndices(nl)
                      /\ matrix_data_corr_r_cat(loc.Lij[f][k], blk, nl, par.cat_kernel, 0)
                           = MulFix(ExpFix(-ToFix(QAdd(tc[da + 1], tc[db + 1]))),
                                    blk.T[a + 1][b + 1])

\* a factor of three levels with distinct angles, and a pair of unequal
\* levels whose decay terms are not zero
C22_Witness ==
  /\ FullVariantDone
  /\ ret.status = "ok"
  /\ loc.n_levels = <<3>>
  /\ loc.m.theta_cat[1][1] # loc.m.theta_cat[1][2]
  /\ loc.m.theta_cat[1][2] # loc.m.theta_cat[1][3]
  /\ \E k \in 1..NRows(loc.ij) :
       /\ LevelOf(k, 1, 1) # LevelOf(k, 2, 1)
       /\ par.theta[4 + LevelOf(k, 1, 1)] # Q(0)
       /\ par.theta[4 + LevelOf(k, 2, 1)] # Q(0)
       /\ par.theta[4 + LevelOf(k, 1, 1)] # par.theta[4 + LevelOf(k, 2, 1)]

\* a call of the engine on reference points, with two factors
C22_WitnessCross ==
  /\ FullVariantDone
  /\ ret.status = "ok"
  /\ y # None
  /\ Len(loc.n_levels) = 2
  /\ \E k \in 1..NRows(loc.ij) : LevelOf(k, 1, 2) # LevelOf(k, 2, 2)

(***************************************************************************)
(* The projection matrix of act_exp and the indices of its derivatives.    *)
(***************************************************************************)
\* A = np.reshape(theta, (n_small_components, n_components)).T: the entry
\* A[i - 1, j - 1] of the n_components x n_small_components matrix
act_exp_A(theta, n_components) ==
  [i \in 1..n_components |->
     [j \in 1..(Len(theta) \div n_components) |-> theta[(j - 1) * n_components + i]]]

\* grad_ind % n_components, grad_ind // n_components
act_exp_index(g, n_components) == <<g % n_components, g \div n_components>>

ActExpDone ==
  /\ KernelDone
  /\ par.fn = "act_exp"
  /\ ThetaValid
  /\ par.d_x = None

\* (row . A)[j] for the column j (1-based) of A
RECURSIVE DotColumn(_, _, _, _)
DotColumn(row, A, j, i) ==
  IF i > Len(row) THEN Q(0)
  ELSE QAdd(QMul(row[i], A[i][j]), DotColumn(row, A, j, i + 1))

\* d.A for the row k of d
ProjectedRow(k) ==
  LET A == act_exp_A(par.theta, NCols(par.d))
  IN [j \in 1..(Len(par.theta) \div NCols(par.d)) |-> DotColumn(par.d.a[k], A, j, 1)]

\* the factor of the first derivative along the flat index g for the row k
GradFactor(k, g) ==
  LET ix == act_exp_index(g, NCols(par.d))
  IN QMul(QNeg(par.d.a[k][ix[1] + 1]), ProjectedRow(k)[ix[2] + 1])

\* the factor of the second derivative along the flat indices g and h
HessFactor(k, g, h) ==
  LET ig == act_exp_index(g, NCols(par.d))
      ih == act_exp_index(h, NCols(par.d))
      fact0 == QMul(QNeg(ProjectedRow(k)[ig[2] + 1]), ProjectedRow(k)[ih[2] + 1])
      fact == IF ig[2] = ih[2] THEN QAdd(Q(1), fact0) ELSE fact0
  IN QMul(QMul(QNeg(par.d.a[k][ig[1] + 1]), par.d.a[k][ih[1] + 1]), fact)

\* C24: in act_exp without d_x, with c the number of columns of D and
\* s = len(theta) / c, the map g -> (g mod c, g div c) is a bijection from
\* 0..len(theta)-1 onto the index pairs of the c x s matrix A, with
\* A[g mod c, g div c] = theta[g]; D.A is the product by that A; for every
\* grad_ind and hess_ind in 0..len(theta)-1 the call ends without an index
\* failure and its result is built from the column g mod c of D and the
\* column g div c of D.A.
C24_ActExpIndexDecomposition ==
  ActExpDone =>
    LET c == NCols(par.d)
        n == Len(par.theta)
        s == n \div c
        A == act_exp_A(par.theta, c)
    IN /\ {act_exp_index(g, c) : g \in 0..(n - 1)} = (0..(c - 1)) \X (0..(s - 1))
       /\ Cardinality({act_exp_index(g, c) : g \in 0..(n - 1)}) = n
       /\ Len(A) = c
       /\ \A i \in 1..c : Len(A[i]) = s
       /\ \A g \in 0..(n - 1) :
            A[act_exp_index(g, c)[1] + 1][act_exp_index(g, c)[2] + 1] = par.theta[g + 1]
       /\ \A k \in 1..NRows(par.d) : \A j \in 1..s :
            act_exp_dot(par.theta, par.d.a[k], c, j, 1) = ProjectedRow(k)[j]
       /\ ret.status \in {"ok", "ValueError: Jacobians are not available for this correlation kernel"}
       /\ (ret.status = "ok" /\ par.grad_ind # None)
            => \A k \in 1..NRows(par.d) :
                 ret.value.r[k]
                   = MulQ(act_exp_row(ProjectedRow(k)),
                          IF par.hess_ind = None THEN GradFactor(k, par.grad_ind[1])
                          ELSE HessFactor(k, par.grad_ind[1], par.hess_ind[1]))

\* two columns and two sub-components, a gradient along the last flat index
C24_Witness ==
  /\ ActExpDone
  /\ NCols(par.d) = 2
  /\ Len(par.theta) = 4
  /\ par.grad_ind = Some(3)
  /\ par.hess_ind = None
  /\ ret.status = "ok"
  /\ \E k \in 1..NRows(par.d) : ret.value.r[k] # 0

\* a second derivative along two flat indices of different sub-components
C24_WitnessHessian ==
  /\ ActExpDone
  /\ NCols(par.d) = 2
  /\ Len(par.theta) = 4
  /\ par.grad_ind = Some(1)
  /\ par.hess_ind = Some(2)
  /\ ret.status = "ok"
  /\ \E k \in 1..NRows(par.d) : ret.value.r[k] # 0

(***************************************************************************)
(* The counter i of componentwise_distance.                                *)
(***************************************************************************)
\* the value of i at which the loop `while True` of lines 1247-1264 returns
\* on n rows with chunks of nb rows
RECURSIVE componentwise_distance_loop_i(_, _, _)
componentwise_distance_loop_i(n, i, nb) ==
  IF i * nb > n THEN i ELSE componentwise_distance_loop_i(n, i + 1, nb)

\* the value of i when the call ends: every branch of lines 1265-1284
\* returns or raises before the `i += 1` of line 1285
componentwise_distance_i(D, return_derivative, nb) ==
  IF return_derivative = FALSE THEN componentwise_distance_loop_i(NRows(D), 0, nb)
  ELSE 0

DistanceDone == pc = "returned" /\ par.fn = "componentwise_distance"

\* the row k of the derivative of the distances with respect to the points
DerivativeRow(k) ==
  [j \in 1..NCols(par.d) |->
     IF par.corr = "squar_exp"
       THEN QMul(Q(2), QMul(par.theta[1][j], par.d.a[k][j]))
       ELSE QMul(par.theta[1][j],
                 IF QLess(par.d.a[k][j], Q(0)) THEN Q(-1) ELSE Q(1))]

\* the row k of the distances
DistanceRow(k) ==
  [j \in 1..NCols(par.d) |->
     IF par.corr = "squar_exp" THEN QMul(par.d.a[k][j], par.d.a[k][j])
     ELSE IF par.corr = "act_exp" THEN par.d.a[k][j]
     ELSE QAbs(par.d.a[k][j])]

\* C25: componentwise_distance with return_derivative and theta ends
\* without a pass of the loop, whatever the number of rows and the chunk
\* size: for act_exp in the error "not implemented", for the other kernels
\* with one computed row for every row of D, and i is never incremented;
\* without return_derivative the loop ends, after the chunks that cover
\* the rows, with D squared (squar_exp), D (act_exp) or |D| in every row.
C25_DerivativeReturnsAtOnce ==
  DistanceDone =>
    /\ (par.return_derivative /\ par.theta # None)
         => /\ componentwise_distance_i(par.d, par.return_derivative, par.nb) = 0
            /\ par.corr = "act_exp"
                 => ret.status = "ValueError: this option is not implemented for active learning"
            /\ par.corr # "act_exp"
                 => /\ ret.status = "ok"
                    /\ ret.value.shape = par.d.shape
                    /\ Len(ret.value.a) = NRows(par.d)
                    /\ \A k \in 1..NRows(par.d) : ret.value.a[k] = DerivativeRow(k)
    /\ ~par.return_derivative
         => /\ ret.status = "ok"
            /\ ret.value.shape = par.d.shape
            /\ Len(ret.value.a) = NRows(par.d)
            /\ \A k \in 1..NRows(par.d) : ret.value.a[k] = DistanceRow(k)
            /\ componentwise_distance_i(par.d, par.return_derivative, par.nb)
                 = (NRows(par.d) \div par.nb) + 1
            /\ (componentwise_distance_i(par.d, par.return_derivative, par.nb) - 1) * par.nb
                 <= NRows(par.d)

\* more rows than the chunk size, with a negative and a positive difference
C25_Witness ==
  /\ DistanceDone
  /\ par.return_derivative
  /\ par.theta # None
  /\ par.corr = "abs_exp"
  /\ NRows(par.d) > par.nb
  /\ ret.status = "ok"
  /\ \E k \in 1..NRows(par.d) : \E j \in 1..NCols(par.d) :
       QLess(ret.value.a[k][j], Q(0)) /\ k > par.nb
  /\ \E k \in 1..NRows(par.d) : \E j \in 1..NCols(par.d) : QLess(Q(0), ret.value.a[k][j])

C25_WitnessSquarExp ==
  /\ DistanceDone
  /\ par.return_derivative
  /\ par.theta # None
  /\ par.corr = "squar_exp"
  /\ NRows(par.d) > par.nb
  /\ ret.status = "ok"
  /\ \E j \in 1..NCols(par.d) : ret.value.a[NRows(par.d)][j] # Q(0)

C25_WitnessLoop ==
  /\ DistanceDone
  /\ ~par.return_derivative
  /\ par.corr = "matern52"
  /\ NRows(par.d) > par.nb
  /\ ret.status = "ok"
  /\ \E j \in 1..NCols(par.d) : QLess(par.d.a[NRows(par.d)][j], Q(0))

====
